---------------------------- MODULE Spec2Model ----------------------------
(***************************************************************************)
(* The parseAnalytics filter of the NetSuite adapter: the fetch            *)
(* normalizer (raw parsed-XML document -> canonical value tree), the       *)
(* deploy denormalizer (canonical value tree -> wire-shaped definition     *)
(* tree), the translation reference resolver and the summary arrays.       *)
(*                                                                         *)
(* Values are tagged records, so that a string, a boolean, a number, a     *)
(* sequence, a mapping and a ReferenceExpression are distinct values:      *)
(*   [k |-> "str", s], [k |-> "bool", b], [k |-> "num", n],                *)
(*   [k |-> "seq", items], [k |-> "obj", m], [k |-> "ref", elemID],        *)
(*   [k |-> "undef"].                                                      *)
(* A number carries its decimal text (what String(n) prints).  A mapping   *)
(* is a function from keys to values: no operation of the filter depends   *)
(* on the order of the keys of a mapping.                                  *)
(***************************************************************************)
EXTENDS Integers, Sequences, FiniteSets, TLC

VARIABLES
    stage,           \* position of the instance in its life cycle
    kind,            \* instance.elemID.typeName: "dataset" or "workbook"
    instValue,       \* instance.value
    rawRoot,         \* the parsed definition root the instance was fetched from (history)
    elementsSource,  \* the persistent elements source (translation collections)
    elements,        \* the in-flight elements of the fetch (translation collections)
    canonical,       \* instance.value as handed to preDeploy (history)
    completed,       \* fullDefinitionValues after addMissingFields (history)
    encoded,         \* fullDefinitionValues after matchToXmlObjectForm (history)
    probe,           \* arguments and result of the last helper call
    schemaDefault,   \* the DEFAULT_VALUE annotation of dataset.criteria in the schema
                     \* built for the last call of preDeploy
    phase,           \* position of onFetch over the elements of a fetch
    tasks,           \* the calls of createAnalyticsInstances in flight (Promise.all)
    initialElements, \* the elements onFetch was called with (history)
    inFlight         \* the elements when the calls in flight were started (history)

\* the state of onFetch over a whole list of elements
fetchVars == <<phase, tasks, initialElements, inFlight>>

\* the state of one analytics instance and of the helper calls
instanceVars == <<stage, kind, instValue, rawRoot, canonical, completed, encoded, probe, schemaDefault>>

vars == <<stage, kind, instValue, rawRoot, elementsSource, elements, canonical, completed, encoded, probe,
          schemaDefault, phase, tasks, initialElements, inFlight>>

-----------------------------------------------------------------------------
(* Values *)

Str(s) == [k |-> "str", s |-> s]
Bool(b) == [k |-> "bool", b |-> b]
Num(n) == [k |-> "num", n |-> n]
List(items) == [k |-> "seq", items |-> items]
Obj(m) == [k |-> "obj", m |-> m]
Ref(elemID) == [k |-> "ref", elemID |-> elemID]
Undef == [k |-> "undef"]
EmptyMap == <<>>

isPlainObject(v) == v.k = "obj"
isArray(v) == v.k = "seq"
isString(v) == v.k = "str"
isBoolean(v) == v.k = "bool"
isReferenceExpression(v) == v.k = "ref"
isUndefined(v) == v.k = "undef"

\* key in value
In(key, v) == isPlainObject(v) /\ key \in DOMAIN v.m
\* value[key], value?.[key]
Get(v, key) == IF In(key, v) THEN v.m[key] ELSE Undef
\* _.omit(m, keys)
Omit(m, keys) == [x \in DOMAIN m \ keys |-> m[x]]
\* {...a, ...b}
Spread2(a, b) == [x \in DOMAIN a \cup DOMAIN b |-> IF x \in DOMAIN b THEN b[x] ELSE a[x]]
\* m[key] = val
Put(m, key, val) == Spread2(m, key :> val)
-----------------------------------------------------------------------------
(* Strings.  A string is an atom; Lexemes spells it as the sequence of its *)
(* lexemes: a run of word characters, or one punctuation character.  A     *)
(* string that starts with the translation prefix is spelled with the      *)
(* prefix as its first lexeme.  A string outside the table is one run of   *)
(* word characters.                                                        *)

PREFIX == "custcollectiontranslations"
Punctuation == {".", "-"}
DigitRuns == {"0", "1", "5", "9", "123"}

LexTable ==
    ("" :> <<>>)
    @@ ("custcollectiontranslations123" :> <<PREFIX, "123">>)
    @@ ("custcollectiontranslations9" :> <<PREFIX, "9">>)
    @@ ("custcollectiontranslations123.greeting" :> <<PREFIX, "123", ".", "greeting">>)
    @@ ("custcollectiontranslations123.bye" :> <<PREFIX, "123", ".", "bye">>)
    @@ ("custcollectiontranslations123.a-b" :> <<PREFIX, "123", ".", "a", "-", "b">>)
    @@ ("custcollectiontranslations9.greeting" :> <<PREFIX, "9", ".", "greeting">>)
    @@ ("custcollectiontranslations123.greeting.x" :> <<PREFIX, "123", ".", "greeting", ".", "x">>)
    @@ ("123.greeting" :> <<"123", ".", "greeting">>)
    @@ ("a-b" :> <<"a", "-", "b">>)
    @@ ("0.1" :> <<"0", ".", "1">>)
    @@ ("netsuite.translationcollection.instance.custcollectiontranslations123"
          :> <<"netsuite", ".", "translationcollection", ".", "instance", ".", PREFIX, "123">>)
    @@ ("netsuite.translationcollection.instance.custcollectiontranslations123.strings.string.greeting.scriptid"
          :> <<"netsuite", ".", "translationcollection", ".", "instance", ".", PREFIX, "123", ".",
               "strings", ".", "string", ".", "greeting", ".", "scriptid">>)
    @@ ("netsuite.translationcollection.instance.custcollectiontranslations123.strings.string.a-b.scriptid"
          :> <<"netsuite", ".", "translationcollection", ".", "instance", ".", PREFIX, "123", ".",
               "strings", ".", "string", ".", "a", "-", "b", ".", "scriptid">>)

    @@ ("translationcollection.instance.custcollectiontranslations123.strings.string.greeting.scriptid"
          :> <<"translationcollection", ".", "instance", ".", PREFIX, "123", ".",
               "strings", ".", "string", ".", "greeting", ".", "scriptid">>)
    @@ ("translationcollection.instance.custcollectiontranslations123.strings.string.bye.scriptid"
          :> <<"translationcollection", ".", "instance", ".", PREFIX, "123", ".",
               "strings", ".", "string", ".", "bye", ".", "scriptid">>)
    @@ ("translationcollection.instance.custcollectiontranslations123.strings.string.a-b.scriptid"
          :> <<"translationcollection", ".", "instance", ".", PREFIX, "123", ".",
               "strings", ".", "string", ".", "a", "-", "b", ".", "scriptid">>)
    @@ ("translationcollection.instance.custcollectiontranslations9.strings.string.greeting.scriptid"
          :> <<"translationcollection", ".", "instance", ".", PREFIX, "9", ".",
               "strings", ".", "string", ".", "greeting", ".", "scriptid">>)

Lexemes(s) == IF s \in DOMAIN LexTable THEN LexTable[s] ELSE <<s>>

\* the string spelled by a sequence of lexemes
Unlex(ls) ==
    IF Len(ls) = 1 /\ ls[1] \notin Punctuation THEN ls[1]
    ELSE CHOOSE s \in DOMAIN LexTable : LexTable[s] = ls

\* str.startsWith('custcollectiontranslations')
startsWithPrefix(s) == LET ls == Lexemes(s) IN Len(ls) >= 1 /\ ls[1] = PREFIX

\* str.split('.') on lexemes: the runs between the '.' lexemes
RECURSIVE SplitLex(_, _)
SplitLex(ls, cur) ==
    IF ls = <<>> THEN <<cur>>
    ELSE IF Head(ls) = "." THEN <<cur>> \o SplitLex(Tail(ls), <<>>)
    ELSE SplitLex(Tail(ls), Append(cur, Head(ls)))

split(s) == LET parts == SplitLex(Lexemes(s), <<>>)
            IN [i \in 1..Len(parts) |-> IF parts[i] = <<>> THEN "" ELSE Unlex(parts[i])]

\* a.concat('.', b)
concatDot(a, b) == Unlex(Lexemes(a) \o <<".">> \o Lexemes(b))

\* \w+
isWord(s) == LET ls == Lexemes(s) IN Len(ls) >= 1 /\ \A i \in 1..Len(ls) : ls[i] \notin Punctuation

\* !Number.isNaN(Number(str)) for the spellings of the table: the empty
\* string, digits, and digits with one decimal point
isNumberStr(s) ==
    LET ls == Lexemes(s)
        digits(i) == ls[i] \in DigitRuns
    IN \/ Len(ls) = 0
       \/ Len(ls) = 1 /\ digits(1)
       \/ Len(ls) = 2 /\ ((digits(1) /\ ls[2] = ".") \/ (ls[1] = "." /\ digits(2)))
       \/ Len(ls) = 3 /\ digits(1) /\ ls[2] = "." /\ digits(3)

\* String(value)
String(v) ==
    CASE v.k = "str" -> v
      [] v.k = "bool" -> Str(IF v.b THEN "true" ELSE "false")
      [] v.k = "num" -> Str(v.n)
      [] v.k = "undef" -> Str("undefined")
      [] v.k = "obj" -> Str("[object Object]")
      [] OTHER -> Str("[unprintable]")

-----------------------------------------------------------------------------
(* Constants of the filter *)

T == "_T_"
TYPE == "@_type"
ITEM == "_ITEM_"
TEXT == "#text"
XML_TYPE == "XML_TYPE"
DO_NOT_ADD == "DO_NOT_ADD"
DEFAULT_VALUE == "DEFAULT_VALUE"
IGNORE_T_VALUE == "IGNORE_T_VALUE"
NETSUITE == "netsuite"
DATASET == "dataset"
WORKBOOK == "workbook"

TValuesToIgnore == {"workbook", "dataSet", "formula"}
keysToAddT == {"formula"}
originalFields == {"scriptid", "name", "definition", "dependencies"}

-----------------------------------------------------------------------------
(* Schema.  A type reference is a primitive, a list of a type reference,  *)
(* or the name of an object type; an object type has annotations and     *)
(* fields, a field has a type reference and annotations.  Annotations    *)
(* that no operation of the filter reads (_required, restrictions, path) *)
(* are left out.                                                          *)

Prim(n) == [kind |-> "primitive", name |-> n]
ListType(inner) == [kind |-> "list", inner |-> inner]
ObjRef(n) == [kind |-> "object", name |-> n]
Field(refType, annotations) == [refType |-> refType, annotations |-> annotations]
Plain(refType) == Field(refType, EmptyMap)
NoField == [refType |-> [kind |-> "none"], annotations |-> EmptyMap]
NoType == [kind |-> "none"]

STRING_T == Prim("string")
NUMBER_T == Prim("number")
BOOLEAN_T == Prim("boolean")
UNKNOWN_T == Prim("unknown")
SERVICE_ID_T == Prim("serviceid")
CDATA_T == Prim("cdata")

nullObject == Obj(TYPE :> Str("null"))
arrayObject == Obj(TYPE :> Str("array"))

\* the DEFAULT_VALUE of dataset.criteria
criteriaDefault == Obj((T :> Str("condition")) @@ ("condition" :> Obj(EmptyMap)))

datasetTypes ==
    [ dataset_audience |->
        [ annotations |-> EmptyMap,
          fields |-> [ AudienceItems |-> Plain(ListType(UNKNOWN_T)),
                       isPublic |-> Plain(BOOLEAN_T) ] ],
      dataset_dependencies |->
        [ annotations |-> EmptyMap,
          fields |-> [ dependency |-> Plain(ListType(STRING_T)) ] ],
      dataset_baseRecord |->
        [ annotations |-> EmptyMap,
          fields |-> [ id |-> Plain(STRING_T), label |-> Plain(STRING_T) ] ],
      dataset_join |->
        [ annotations |-> EmptyMap,
          fields |-> [ id |-> Plain(STRING_T), targetRecordType |-> Plain(STRING_T) ] ],
      dataset_joinTrail |->
        [ annotations |-> EmptyMap,
          fields |-> [ baseRecord |-> Plain(ObjRef("dataset_baseRecord")),
                       joins |-> Plain(ListType(ObjRef("dataset_join"))) ] ],
      dataset_fieldReference |->
        [ annotations |-> EmptyMap,
          fields |-> [ id |-> Plain(STRING_T),
                       joinTrail |-> Plain(ObjRef("dataset_joinTrail")),
                       label |-> Plain(STRING_T),
                       uniqueId |-> Plain(STRING_T),
                       fieldValidityState |-> Field(STRING_T, DO_NOT_ADD :> Bool(TRUE)) ] ],
      dataset_translation |->
        [ annotations |-> EmptyMap,
          fields |-> [ translationScriptId |-> Plain(STRING_T) ] ],
      dataset_formula_formula |->
        [ annotations |-> (XML_TYPE :> Str("formula")) @@ (IGNORE_T_VALUE :> Bool(TRUE)),
          fields |-> [ dataType |-> Plain(STRING_T),
                       formulaSQL |-> Plain(STRING_T),
                       id |-> Plain(STRING_T),
                       label |-> Plain(ObjRef("dataset_translation")),
                       uniqueId |-> Plain(STRING_T) ] ],
      dataset_formula |->
        [ annotations |-> EmptyMap,
          \* fields.refType is rewired to a list of fieldOrFormula after construction
          fields |-> [ fields |-> Plain(ListType(ObjRef("dataset_fieldOrFormula"))),
                       formula |-> Plain(ObjRef("dataset_formula_formula")) ] ],
      dataset_fieldOrFormula |->
        [ annotations |-> XML_TYPE :> Bool(TRUE),
          fields |-> [ fieldReference |->
                         Field(ObjRef("dataset_fieldReference"), DO_NOT_ADD :> Bool(TRUE)),
                       dataSetFormula |->
                         Field(ObjRef("dataset_formula"), DO_NOT_ADD :> Bool(TRUE)) ] ],
      dataset_column |->
        [ annotations |-> EmptyMap,
          fields |-> [ alias |-> Plain(STRING_T),
                       columnId |-> Plain(NUMBER_T),
                       field |-> Plain(ObjRef("dataset_fieldOrFormula")),
                       label |-> Plain(ObjRef("dataset_translation")) ] ],
      dataset_criteria_expression_value |->
        [ annotations |-> EmptyMap,
          fields |-> [ type |-> Plain(STRING_T), value |-> Plain(UNKNOWN_T) ] ],
      dataset_criteria_expression |->
        [ annotations |-> EmptyMap,
          fields |-> [ label |-> Plain(STRING_T),
                       subType |-> Plain(UNKNOWN_T),
                       uiData |-> Plain(ListType(STRING_T)),
                       value |-> Plain(ObjRef("dataset_criteria_expression_value")) ] ],
      dataset_meta |->
        [ annotations |-> EmptyMap,
          fields |-> [ selectorType |-> Plain(UNKNOWN_T), subType |-> Plain(STRING_T) ] ],
      dataset_operator |->
        [ annotations |-> EmptyMap,
          fields |-> [ code |-> Field(STRING_T, DEFAULT_VALUE :> Str("AND")) ] ],
      dataset_criteria_TargetFieldContext |->
        [ annotations |-> EmptyMap,
          fields |-> [ name |-> Field(STRING_T, DEFAULT_VALUE :> Str("DEFAULT")) ] ],
      dataset_filter |->
        [ annotations |-> EmptyMap,
          fields |-> [ caseSensitive |-> Plain(BOOLEAN_T),
                       expressions |-> Plain(ListType(ObjRef("dataset_criteria_expression"))),
                       operator |-> Plain(ObjRef("dataset_operator")),
                       targetFieldContext |-> Plain(ObjRef("dataset_criteria_TargetFieldContext")),
                       field |-> Plain(ObjRef("dataset_fieldOrFormula")),
                       fieldStateName |-> Plain(STRING_T),
                       meta |-> Plain(ObjRef("dataset_meta")) ] ],
      dataset_condition |->
        [ annotations |-> EmptyMap,
          \* children.refType is rewired to a list of criteria after construction
          fields |-> [ children |-> Plain(ListType(ObjRef("dataset_criteria"))),
                       operator |-> Plain(ObjRef("dataset_operator")),
                       targetFieldContext |-> Plain(ObjRef("dataset_criteria_TargetFieldContext")),
                       meta |-> Plain(ObjRef("dataset_meta")),
                       field |-> Plain(ObjRef("dataset_fieldOrFormula")),
                       fieldStateName |-> Plain(STRING_T) ] ],
      dataset_criteria |->
        [ annotations |-> XML_TYPE :> Bool(TRUE),
          fields |-> [ condition |->
                         Field(ObjRef("dataset_condition"), DO_NOT_ADD :> Bool(TRUE)),
                       filter |->
                         Field(ObjRef("dataset_filter"), DO_NOT_ADD :> Bool(TRUE)) ] ],
      dataset |->
        [ annotations |-> (XML_TYPE :> Str("dataSet")) @@ (IGNORE_T_VALUE :> Bool(TRUE)),
          fields |-> [ scriptid |-> Plain(SERVICE_ID_T),
                       name |-> Plain(STRING_T),
                       dependencies |-> Plain(ObjRef("dataset_dependencies")),
                       definition |-> Plain(CDATA_T),
                       applicationId |-> Plain(UNKNOWN_T),
                       audience |-> Plain(ObjRef("dataset_audience")),
                       baseRecord |-> Plain(ObjRef("dataset_baseRecord")),
                       columns |-> Plain(ListType(ObjRef("dataset_column"))),
                       criteria |-> Field(ObjRef("dataset_criteria"),
                                          DEFAULT_VALUE :> criteriaDefault),
                       description |-> Plain(ObjRef("dataset_translation")),
                       formulas |-> Plain(ListType(ObjRef("dataset_fieldOrFormula"))),
                       id |-> Plain(UNKNOWN_T),
                       ownerId |-> Plain(NUMBER_T),
                       version |-> Plain(STRING_T),
                       scriptId |-> Plain(UNKNOWN_T) ] ] ]

\* ParsedDatasetType().type
ParsedDatasetType == ObjRef("dataset")

\* The workbook schema (type_parsers/workbook_parsing/parsed_workbook) is
\* not among the sources: the root type is modelled as an object type that
\* declares no fields.
workbookTypes == [ workbook |-> [ annotations |-> EmptyMap, fields |-> EmptyMap ] ]
ParsedWorkbookType == ObjRef("workbook")

ObjectTypes == Spread2(datasetTypes, workbookTypes)

isObjectType(t) == t.kind = "object"
isPrimitiveType(t) == t.kind = "primitive"
isContainerType(t) == t.kind = "list"
TypeAnnotations(t) == ObjectTypes[t.name].annotations
TypeFields(t) == ObjectTypes[t.name].fields
\* field?.getType()
getType(field) == field.refType
\* type.fields[key], undefined when the type declares no such field
FieldOf(t, key) ==
    IF isObjectType(t) /\ key \in DOMAIN TypeFields(t) THEN TypeFields(t)[key] ELSE NoField

-----------------------------------------------------------------------------
(* Elements and the translation lookup *)

\* an element of the fetch: its elemID full name (as name parts) and value
Element(elemID, value) == [k |-> "inst", elemID |-> elemID, value |-> value]
translationElemID(name) == <<NETSUITE, "translationcollection", "instance", name>>

\* elementsSource.get(id): the elements source is a function from the
\* names of the translation collections it holds to their elements
sourceGet(es, name) == IF name \in DOMAIN es THEN es[name] ELSE Undef

\* elements.find(e => e.elemID.getFullName() === fullName)
find(els, elemID) ==
    LET hits == {i \in 1..Len(els) : els[i].elemID = elemID}
    IN IF hits = {} THEN Undef
       ELSE els[CHOOSE i \in hits : \A j \in hits : i <= j]

\* await elementsSource.get(instanceElemId) ?? elements.find(...)
lookupInstance(es, els, name) ==
    IF ~isUndefined(sourceGet(es, name)) THEN sourceGet(es, name)
    ELSE find(els, translationElemID(name))

\* hasScriptId without the look at the string entry: any found instance
hasInstance(instance, stringId) == ~isUndefined(instance)

\* instance && instance.value?.strings?.string?.[stringId]?.scriptid !== undefined
hasScriptId(instance, stringId) ==
    /\ ~isUndefined(instance)
    /\ ~isUndefined(Get(Get(Get(Get(instance.value, "strings"), "string"), stringId), "scriptid"))

-----------------------------------------------------------------------------
(* Fetch normalizer *)

\* fetchTransformFunc without the fallback for an unexpected discriminator:
\* every mapping that carries one is taken for a tagged union
fetchTransformFuncNoFallback(value, field, path, es, els, type) ==
    LET fieldType == IF Len(path) = 4 THEN type ELSE getType(field)
        sentinel == Get(value, TYPE)
    IN
    IF isPlainObject(value) THEN
        IF In(TYPE, value) /\ sentinel = Str("null") THEN Obj(EmptyMap)
        ELSE IF In(TYPE, value) /\ sentinel = Str("array") THEN
            IF ~isUndefined(Get(value, ITEM))
            THEN (IF isArray(Get(value, ITEM)) THEN Get(value, ITEM) ELSE List(<<Get(value, ITEM)>>))
            ELSE List(<<>>)
        ELSE IF In(TYPE, value) /\ sentinel = Str("boolean") THEN Get(value, TEXT)
        ELSE IF In(TYPE, value) /\ sentinel = Str("string") THEN String(Get(value, TEXT))
        ELSE IF In(T, value) THEN
            IF isString(value.m[T]) /\ value.m[T].s \in TValuesToIgnore
                 THEN Obj(Omit(value.m, {T}))
                 ELSE Obj(String(value.m[T]).s :> Obj(Omit(value.m, {T})))
        ELSE value
    ELSE IF /\ isString(value)
            /\ startsWithPrefix(value.s)
            /\ Len(split(value.s)) = 2
            /\ hasScriptId(lookupInstance(es, els, split(value.s)[1]), split(value.s)[2])
         THEN Ref(translationElemID(split(value.s)[1])
                  \o <<"strings", "string", split(value.s)[2], "scriptid">>)
    ELSE IF fieldType = STRING_T THEN String(value)
    ELSE value

\* fetchTransformFunc without the coercion of the payload of an array
\* sentinel: a payload that is not a sequence is returned as it is
fetchTransformFuncNoCoercion(value, field, path, es, els, type) ==
    LET fieldType == IF Len(path) = 4 THEN type ELSE getType(field)
        sentinel == Get(value, TYPE)
    IN
    IF isPlainObject(value) THEN
        IF In(TYPE, value) /\ sentinel = Str("null") THEN Obj(EmptyMap)
        ELSE IF In(TYPE, value) /\ sentinel = Str("array") THEN
            IF ~isUndefined(Get(value, ITEM)) THEN Get(value, ITEM) ELSE List(<<>>)
        ELSE IF In(TYPE, value) /\ sentinel = Str("boolean") THEN Get(value, TEXT)
        ELSE IF In(TYPE, value) /\ sentinel = Str("string") THEN String(Get(value, TEXT))
        ELSE IF In(T, value) THEN
            IF ~isObjectType(fieldType) \/ XML_TYPE \notin DOMAIN TypeAnnotations(fieldType)
            THEN Obj(Spread2("xmlType" :> value.m[T], Omit(value.m, {T})))
            ELSE IF isString(value.m[T]) /\ value.m[T].s \in TValuesToIgnore
                 THEN Obj(Omit(value.m, {T}))
                 ELSE Obj(String(value.m[T]).s :> Obj(Omit(value.m, {T})))
        ELSE value
    ELSE IF /\ isString(value)
            /\ startsWithPrefix(value.s)
            /\ Len(split(value.s)) = 2
            /\ hasScriptId(lookupInstance(es, els, split(value.s)[1]), split(value.s)[2])
         THEN Ref(translationElemID(split(value.s)[1])
                  \o <<"strings", "string", split(value.s)[2], "scriptid">>)
    ELSE IF fieldType = STRING_T THEN String(value)
    ELSE value

fetchTransformFunc(value, field, path, es, els, type) ==
    LET fieldType == IF Len(path) = 4 THEN type ELSE getType(field)
        sentinel == Get(value, TYPE)
    IN
    IF isPlainObject(value) THEN
        IF In(TYPE, value) /\ sentinel = Str("null") THEN Obj(EmptyMap)
        ELSE IF In(TYPE, value) /\ sentinel = Str("array") THEN
            IF ~isUndefined(Get(value, ITEM))
            THEN (IF isArray(Get(value, ITEM)) THEN Get(value, ITEM) ELSE List(<<Get(value, ITEM)>>))
            ELSE List(<<>>)
        ELSE IF In(TYPE, value) /\ sentinel = Str("boolean") THEN Get(value, TEXT)
        ELSE IF In(TYPE, value) /\ sentinel = Str("string") THEN String(Get(value, TEXT))
        ELSE IF In(T, value) THEN
            IF ~isObjectType(fieldType) \/ XML_TYPE \notin DOMAIN TypeAnnotations(fieldType)
            THEN Obj(Spread2("xmlType" :> value.m[T], Omit(value.m, {T})))
            ELSE IF isString(value.m[T]) /\ value.m[T].s \in TValuesToIgnore
                 THEN Obj(Omit(value.m, {T}))
                 ELSE Obj(String(value.m[T]).s :> Obj(Omit(value.m, {T})))
        ELSE value
    ELSE IF /\ isString(value)
            /\ startsWithPrefix(value.s)
            /\ Len(split(value.s)) = 2
            /\ hasScriptId(lookupInstance(es, els, split(value.s)[1]), split(value.s)[2])
         THEN Ref(translationElemID(split(value.s)[1])
                  \o <<"strings", "string", split(value.s)[2], "scriptid">>)
    ELSE IF fieldType = STRING_T THEN String(value)
    ELSE value

-----------------------------------------------------------------------------
(* The fetch normalizer of the parseWorkbook filter *)

workbookTValuesToIgnore == {"workbook"}

\* `translationcollection.instance.${nameParts[0]}.strings.string.${nameParts[1]}.scriptid`
finalElemIdPath(collectionId, stringId) ==
    Unlex(<<"translationcollection", ".", "instance", ".">> \o Lexemes(collectionId)
          \o <<".", "strings", ".", "string", ".">> \o Lexemes(stringId) \o <<".", "scriptid">>)

\* fetchTransformFunc of the parseWorkbook filter
workbookFetchTransformFunc(value, field, path) ==
    LET fieldType == IF Len(path) = 4 THEN ParsedWorkbookType ELSE getType(field)
        sentinel == Get(value, TYPE)
    IN
    IF isPlainObject(value) THEN
        IF In(TYPE, value) /\ sentinel = Str("null") THEN Obj(EmptyMap)
        ELSE IF In(TYPE, value) /\ sentinel = Str("array") THEN
            IF ~isUndefined(Get(value, ITEM))
            THEN (IF isArray(Get(value, ITEM)) THEN Get(value, ITEM) ELSE List(<<Get(value, ITEM)>>))
            ELSE List(<<>>)
        ELSE IF In(TYPE, value) /\ sentinel = Str("boolean") THEN Get(value, TEXT)
        ELSE IF In(TYPE, value) /\ sentinel = Str("string") THEN String(Get(value, TEXT))
        ELSE IF In(T, value) THEN
            IF ~isObjectType(fieldType) \/ XML_TYPE \notin DOMAIN TypeAnnotations(fieldType)
            THEN Obj(Spread2("xmlType" :> value.m[T], Omit(value.m, {T})))
            ELSE IF isString(value.m[T]) /\ value.m[T].s \in workbookTValuesToIgnore
                 THEN Obj(Omit(value.m, {T}))
                 ELSE Obj(String(value.m[T]).s :> Obj(Omit(value.m, {T})))
        ELSE value
    ELSE IF isString(value) /\ startsWithPrefix(value.s) /\ Len(split(value.s)) = 2
         THEN Ref(<<NETSUITE, finalElemIdPath(split(value.s)[1], split(value.s)[2])>>)
    ELSE IF fieldType = STRING_T THEN String(value)
    ELSE value

-----------------------------------------------------------------------------
(* Deploy denormalizer: field completion *)

\* createEmptyObjectOfType collapsing only an object of null sentinels: an
\* empty-array sentinel among the children keeps the mapping
RECURSIVE createEmptyObjectOnlyNulls(_, _)
createEmptyObjectOnlyNulls(fieldType, key) ==
    LET annotations == TypeFields(fieldType)[key].annotations
        keyType == getType(TypeFields(fieldType)[key])
    IN
    IF DEFAULT_VALUE \in DOMAIN annotations THEN annotations[DEFAULT_VALUE]
    ELSE IF isContainerType(keyType) THEN arrayObject
    ELSE IF \/ isPrimitiveType(keyType)
            \/ /\ XML_TYPE \in DOMAIN TypeAnnotations(keyType)
               /\ IGNORE_T_VALUE \notin DOMAIN TypeAnnotations(keyType)
         THEN nullObject
    ELSE LET innerKeys == {innerKey \in DOMAIN TypeFields(keyType) :
                              DO_NOT_ADD \notin DOMAIN TypeFields(keyType)[innerKey].annotations}
             newObject == [innerKey \in innerKeys |-> createEmptyObjectOnlyNulls(keyType, innerKey)]
         IN IF \A innerKey \in innerKeys : newObject[innerKey] = nullObject
            THEN nullObject
            ELSE Obj(newObject)

\* createEmptyObjectOfType choosing by shape first: the configured default
\* is looked at only for a plain object type
RECURSIVE createEmptyObjectShapeFirst(_, _)
createEmptyObjectShapeFirst(fieldType, key) ==
    LET annotations == TypeFields(fieldType)[key].annotations
        keyType == getType(TypeFields(fieldType)[key])
    IN
    IF isContainerType(keyType) THEN arrayObject
    ELSE IF \/ isPrimitiveType(keyType)
            \/ /\ XML_TYPE \in DOMAIN TypeAnnotations(keyType)
               /\ IGNORE_T_VALUE \notin DOMAIN TypeAnnotations(keyType)
         THEN nullObject
    ELSE IF DEFAULT_VALUE \in DOMAIN annotations THEN annotations[DEFAULT_VALUE]
    ELSE LET innerKeys == {innerKey \in DOMAIN TypeFields(keyType) :
                              DO_NOT_ADD \notin DOMAIN TypeFields(keyType)[innerKey].annotations}
             newObject == [innerKey \in innerKeys |-> createEmptyObjectShapeFirst(keyType, innerKey)]
         IN IF \A innerKey \in innerKeys :
                   newObject[innerKey] = nullObject \/ newObject[innerKey] = arrayObject
            THEN nullObject
            ELSE Obj(newObject)

RECURSIVE createEmptyObjectOfType(_, _)
createEmptyObjectOfType(fieldType, key) ==
    LET annotations == TypeFields(fieldType)[key].annotations
        keyType == getType(TypeFields(fieldType)[key])
    IN
    IF DEFAULT_VALUE \in DOMAIN annotations THEN annotations[DEFAULT_VALUE]
    ELSE IF isContainerType(keyType) THEN arrayObject
    ELSE IF \/ isPrimitiveType(keyType)
            \/ /\ XML_TYPE \in DOMAIN TypeAnnotations(keyType)
               /\ IGNORE_T_VALUE \notin DOMAIN TypeAnnotations(keyType)
         THEN nullObject
    ELSE LET innerKeys == {innerKey \in DOMAIN TypeFields(keyType) :
                              DO_NOT_ADD \notin DOMAIN TypeFields(keyType)[innerKey].annotations}
             newObject == [innerKey \in innerKeys |-> createEmptyObjectOfType(keyType, innerKey)]
         IN \* object that contains only nulls should be null
            IF \A innerKey \in innerKeys :
                   newObject[innerKey] = nullObject \/ newObject[innerKey] = arrayObject
            THEN nullObject
            ELSE Obj(newObject)

\* the nested calls of a synthesis that stops nowhere but at a primitive:
\* it descends into every field of the type, through lists, tagged unions,
\* defaults and fields marked DO_NOT_ADD
nestedCallsEverywhere(fieldType, key) ==
    LET keyType == getType(TypeFields(fieldType)[key])
        base == IF isContainerType(keyType) THEN keyType.inner ELSE keyType
    IN IF isPrimitiveType(base) THEN {}
       ELSE {<<base.name, innerKey>> : innerKey \in DOMAIN TypeFields(base)}

\* the calls createEmptyObjectOfType(fieldType, key) makes of itself, lines
\* 196-223: none where it returns a default, an array sentinel or a null
\* sentinel, else one for each field of the type of the key that is not
\* marked DO_NOT_ADD
nestedCalls(fieldType, key) ==
    LET annotations == TypeFields(fieldType)[key].annotations
        keyType == getType(TypeFields(fieldType)[key])
    IN IF DEFAULT_VALUE \in DOMAIN annotations THEN {}
       ELSE IF isContainerType(keyType) THEN {}
       ELSE IF \/ isPrimitiveType(keyType)
               \/ /\ XML_TYPE \in DOMAIN TypeAnnotations(keyType)
                  /\ IGNORE_T_VALUE \notin DOMAIN TypeAnnotations(keyType)
       THEN {}
       ELSE {<<keyType.name, innerKey>> :
                innerKey \in {x \in DOMAIN TypeFields(keyType) :
                                 DO_NOT_ADD \notin DOMAIN TypeFields(keyType)[x].annotations}}

deployTransformFunc(value, field, path, analyticsType) ==
    LET fieldType == IF Len(path) = 4 THEN analyticsType ELSE getType(field)
    IN
    IF isObjectType(fieldType) /\ isPlainObject(value) /\ ~In(TYPE, value) THEN
        IF XML_TYPE \in DOMAIN TypeAnnotations(fieldType) /\ Cardinality(DOMAIN value.m) = 1
        THEN Obj(Put(value.m, T, Str(CHOOSE key \in DOMAIN value.m : TRUE)))
        ELSE LET missing == {key \in DOMAIN TypeFields(fieldType) :
                               /\ key \notin DOMAIN value.m
                               /\ ~(/\ DO_NOT_ADD \in DOMAIN TypeFields(fieldType)[key].annotations
                                    /\ TypeFields(fieldType)[key].annotations[DO_NOT_ADD] = Bool(TRUE))}
             IN Obj([key \in DOMAIN value.m \cup missing |->
                       IF key \in DOMAIN value.m THEN value.m[key]
                       ELSE IF DEFAULT_VALUE \in DOMAIN TypeFields(fieldType)[key].annotations
                            THEN TypeFields(fieldType)[key].annotations[DEFAULT_VALUE]
                            ELSE createEmptyObjectOfType(fieldType, key)])
    ELSE value

-----------------------------------------------------------------------------
(* transformValues of adapter-utils (not among the sources): the          *)
(* transform function is applied to a value before its children are      *)
(* visited, the children are visited with the fields of the value's      *)
(* type, an undefined result is omitted, and a container left empty is   *)
(* omitted unless allowEmpty.                                             *)

FetchCtx(es, els, type) ==
    [mode |-> "fetch", elementsSource |-> es, elements |-> els, type |-> type, allowEmpty |-> FALSE]
\* allowEmpty is not passed by addMissingFields: the default
DeployCtx(type) ==
    [mode |-> "deploy", elementsSource |-> EmptyMap, elements |-> <<>>, type |-> type,
     allowEmpty |-> FALSE]

transformFunc(ctx, value, field, path) ==
    IF ctx.mode = "fetch"
    THEN fetchTransformFunc(value, field, path, ctx.elementsSource, ctx.elements, ctx.type)
    ELSE deployTransformFunc(value, field, path, ctx.type)

indexKey(i) == ToString(i - 1)

\* what is visited after the transform function has run on a value: the
\* value again as the one item of its list field, the items of a
\* sequence, the children of a mapping
visitOf(newVal, field) ==
    IF isUndefined(newVal) \/ isReferenceExpression(newVal) THEN "none"
    ELSE IF field # NoField /\ isContainerType(getType(field)) /\ ~isArray(newVal) THEN "item"
    ELSE IF isArray(newVal) THEN "items"
    ELSE IF isPlainObject(newVal) THEN "children"
    ELSE "none"

\* the transformed children put together: undefined ones are omitted
collect(allowEmpty, visit, newVal, mapped) ==
    CASE visit = "none" -> newVal
      [] visit = "item" -> mapped[0]
      [] visit = "items" ->
            IF (\A key \in DOMAIN mapped : isUndefined(mapped[key])) /\ ~allowEmpty THEN Undef
            ELSE List(SelectSeq(mapped, LAMBDA x : ~isUndefined(x)))
      [] visit = "children" ->
            IF (\A key \in DOMAIN mapped : isUndefined(mapped[key])) /\ ~allowEmpty THEN Undef
            ELSE Obj([key \in {x \in DOMAIN mapped : ~isUndefined(mapped[x])} |-> mapped[key]])

RECURSIVE transformValue(_, _, _, _)
visitValue(ctx, newVal, path, field, visit) ==
    LET listField == field # NoField /\ isContainerType(getType(field))
        keys == CASE visit = "item" -> {0}
                  [] visit = "items" -> 1..Len(newVal.items)
                  [] visit = "children" -> DOMAIN newVal.m
                  [] OTHER -> {}
        sub(key) == CASE visit = "item" -> newVal
                      [] visit = "items" -> newVal.items[key]
                      [] OTHER -> newVal.m[key]
        subPath(key) == CASE visit = "item" -> path
                          [] visit = "items" -> Append(path, indexKey(key))
                          [] OTHER -> Append(path, key)
        subField(key) == IF visit \in {"item", "items"}
                         THEN (IF listField THEN Field(getType(field).inner, field.annotations)
                               ELSE field)
                         ELSE FieldOf(getType(field), key)
    IN collect(ctx.allowEmpty, visit, newVal,
               [key \in keys |-> transformValue(ctx, sub(key), subPath(key), subField(key))])

visitTransformed(ctx, newVal, path, field) ==
    visitValue(ctx, newVal, path, field, visitOf(newVal, field))

transformValue(ctx, value, path, field) ==
    visitTransformed(ctx, transformFunc(ctx, value, field, path), path, field)

\* the top level: the transform function runs on the values as a whole,
\* then each value is visited with the field of the type
visitValues(ctx, newVal, type, pathID) ==
    IF ~isPlainObject(newVal) THEN newVal
    ELSE collect(FALSE, "children", newVal,
                 [key \in DOMAIN newVal.m |->
                    transformValue(ctx, newVal.m[key], Append(pathID, key), FieldOf(type, key))])

transformValues(ctx, values, type, pathID) ==
    visitValues(ctx, transformFunc(ctx, values, NoField, pathID), type, pathID)

\* instance.elemID of an analytics instance
instanceElemID(typeName, name) == <<NETSUITE, typeName, "instance", name>>

analyticsTypeOf(typeName) == IF typeName = WORKBOOK THEN ParsedWorkbookType ELSE ParsedDatasetType

\* The parsed definition (parse(instance.value.definition).root) stands
\* for the definition text: the XML parser is outside the filter.
\* lines 185-192
withUpdatedValues(value, updatedValues) ==
    IF ~isUndefined(updatedValues)
    THEN Obj(Spread2(Omit(value.m, {"definition"}), Omit(updatedValues.m, {"name"})))
    ELSE value

createAnalyticsInstances(value, typeName, name, es, els, analyticsType) ==
    withUpdatedValues(value,
        transformValues(FetchCtx(es, els, analyticsType),
                        Obj(Omit(value.m["definition"].m, {"name"})),
                        analyticsType, instanceElemID(typeName, name)))

\* a ?? b
orElse(a, b) == IF isUndefined(a) THEN b ELSE a

addMissingFields(typeName, name, definitionValues, analyticsType) ==
    orElse(transformValues(DeployCtx(analyticsType), definitionValues, analyticsType,
                           instanceElemID(typeName, name)),
           definitionValues)

\* deployTransformFunc writes into the value it is handed (value[T] = ...,
\* value[key] = ..., lines 247-255) and returns it, and transformValues
\* hands it the objects of the tree themselves: the state of an object of
\* the tree once addMissingFields has visited it and all that is below it.
RECURSIVE completedInPlace(_, _, _, _)
inPlaceVisit(newVal, path, field, visit, analyticsType) ==
    LET itemField == IF field # NoField /\ isContainerType(getType(field))
                     THEN Field(getType(field).inner, field.annotations)
                     ELSE field
    IN CASE visit = "item" -> completedInPlace(newVal, path, itemField, analyticsType)
         [] visit = "items" ->
               List([i \in 1..Len(newVal.items) |->
                       completedInPlace(newVal.items[i], Append(path, indexKey(i)), itemField,
                                        analyticsType)])
         [] visit = "children" ->
               Obj([key \in DOMAIN newVal.m |->
                      completedInPlace(newVal.m[key], Append(path, key),
                                       FieldOf(getType(field), key), analyticsType)])
         [] OTHER -> newVal

inPlaceTransformed(newVal, path, field, analyticsType) ==
    inPlaceVisit(newVal, path, field, visitOf(newVal, field), analyticsType)

completedInPlace(value, path, field, analyticsType) ==
    inPlaceTransformed(deployTransformFunc(value, field, path, analyticsType), path, field,
                       analyticsType)

\* the root lacks criteria and field completion puts the DEFAULT_VALUE
\* object of the schema itself under it (lines 252-253)
criteriaByDefault(definitionValues, pathID, analyticsType) ==
    /\ ~In("criteria", definitionValues)
    /\ In("criteria", deployTransformFunc(definitionValues, NoField, pathID, analyticsType))

\* the DEFAULT_VALUE annotation of criteria after addMissingFields
schemaDefaultAfter(definitionValues, typeName, name, analyticsType) ==
    IF criteriaByDefault(definitionValues, instanceElemID(typeName, name), analyticsType)
    THEN completedInPlace(criteriaDefault, Append(instanceElemID(typeName, name), "criteria"),
                          FieldOf(analyticsType, "criteria"), analyticsType)
    ELSE criteriaDefault

-----------------------------------------------------------------------------
(* Deploy denormalizer: wire re-encoding *)

\* elemID.getFullName(): the name parts joined by '.'
RECURSIVE JoinLex(_)
JoinLex(parts) ==
    IF Len(parts) = 0 THEN <<>>
    ELSE IF Len(parts) = 1 THEN Lexemes(parts[1])
    ELSE Lexemes(parts[1]) \o <<".">> \o JoinLex(Tail(parts))

getFullName(elemID) == Unlex(JoinLex(elemID))

\* checkReferenceToTranslation counting one name part too few
checkReferenceToTranslationShort(name) ==
    LET nameList == split(name)
    IN /\ Len(nameList) = 7
       /\ nameList[1] = "netsuite"
       /\ nameList[2] = "translationcollection"
       /\ nameList[3] = "instance"
       /\ isWord(nameList[4])
       /\ nameList[5] = "strings"
       /\ nameList[6] = "string"
       /\ isWord(nameList[7])

\* /^netsuite.translationcollection.instance.\w+.strings.string.\w+.scriptid$/
\* matched on the '.'-separated parts of the name: the literal parts, and
\* \w+ for the collection and for the string id (a '.' of the expression
\* is only ever matched against a '.' of the name).
checkReferenceToTranslation(name) ==
    LET nameList == split(name)
    IN /\ Len(nameList) = 8
       /\ nameList[1] = "netsuite"
       /\ nameList[2] = "translationcollection"
       /\ nameList[3] = "instance"
       /\ isWord(nameList[4])
       /\ nameList[5] = "strings"
       /\ nameList[6] = "string"
       /\ isWord(nameList[7])
       /\ nameList[8] = "scriptid"

\* value[key] of a mapping (key a string) or of a sequence (key an index)
At(value, key) == IF isArray(value) THEN value.items[key] ELSE value.m[key]

\* checkReference leaving a Reference in place
checkReferenceKeep(key, value) == At(value, key)

\* checkReference without the rewrite of a translation reference: the full
\* name of every Reference
checkReferenceFullName(key, value) ==
    IF isPlainObject(value) /\ key = "translationScriptId" /\ isReferenceExpression(At(value, key))
    THEN Str(getFullName(At(value, key).elemID))
    ELSE At(value, key)

checkReference(key, value) ==
    IF isPlainObject(value) /\ key = "translationScriptId" /\ isReferenceExpression(At(value, key))
    THEN LET name == getFullName(At(value, key).elemID)
             nameList == split(name)
         IN IF checkReferenceToTranslation(name)
            THEN Str(concatDot(nameList[4], nameList[7]))   \* nameList[3].concat('.', nameList[6])
            ELSE Str(name)
    ELSE At(value, key)

\* checkTypeField without the sentinel of a boolean
checkTypeFieldNoBoolean(key, value) ==
    IF isArray(At(value, key))
    THEN Obj((TYPE :> Str("array")) @@ (ITEM :> At(value, key)))
    ELSE IF isString(At(value, key)) /\ isNumberStr(At(value, key).s)
    THEN Obj((TYPE :> Str("string")) @@ (TEXT :> String(At(value, key))))
    ELSE At(value, key)

checkTypeField(key, value) ==
    IF isArray(At(value, key))
    THEN Obj((TYPE :> Str("array")) @@ (ITEM :> At(value, key)))
    ELSE IF isBoolean(At(value, key))
    THEN Obj((TYPE :> Str("boolean")) @@ (TEXT :> String(At(value, key))))
    ELSE IF isString(At(value, key)) /\ isNumberStr(At(value, key).s)
    THEN Obj((TYPE :> Str("string")) @@ (TEXT :> String(At(value, key))))
    ELSE At(value, key)

\* the entries a spread (...v) contributes: those of a mapping, the
\* indexed elements of a sequence, none for a boolean, a number or
\* undefined (a string would contribute its characters: no string is
\* spread in the model)
spreadOf(v) ==
    IF isPlainObject(v) THEN v.m
    ELSE IF isArray(v) THEN [key \in {indexKey(i) : i \in 1..Len(v.items)} |->
                               v.items[CHOOSE i \in 1..Len(v.items) : indexKey(i) = key]]
    ELSE EmptyMap

\* checkT without the collapse of a mapping of a discriminator and one
\* other key
checkTNoCollapse(key, value) ==
    LET innerVal == At(value, key)
    IN
    IF isPlainObject(value) /\ key \in keysToAddT
    THEN Obj(Spread2(T :> Str(key), spreadOf(innerVal)))
    ELSE IF isPlainObject(innerVal) /\ "xmlType" \in DOMAIN innerVal.m
    THEN Obj(Put(Omit(innerVal.m, {"xmlType"}), T, innerVal.m["xmlType"]))
    ELSE innerVal

checkT(key, value) ==
    LET innerVal == At(value, key)
    IN
    IF isPlainObject(value) /\ key \in keysToAddT
    THEN Obj(Spread2(T :> Str(key), spreadOf(innerVal)))
    ELSE IF isPlainObject(innerVal) THEN
        IF "xmlType" \in DOMAIN innerVal.m
        THEN Obj(Put(Omit(innerVal.m, {"xmlType"}), T, innerVal.m["xmlType"]))
        ELSE IF Cardinality(DOMAIN innerVal.m) = 2 /\ T \in DOMAIN innerVal.m
        THEN LET otherKey == CHOOSE innerKey \in DOMAIN innerVal.m : innerKey # T
             IN Obj(Spread2(T :> innerVal.m[T], spreadOf(innerVal.m[otherKey])))
        ELSE innerVal
    ELSE innerVal

\* value[key] = newVal
Assign(value, key, newVal) ==
    IF isArray(value) THEN List([value.items EXCEPT ![key] = newVal])
    ELSE Obj(Put(value.m, key, newVal))

\* The value after the walk function has run on it; the function
\* rewrites the children of the value it is called on.
\* lines 330-335
encodeFields(value) ==
    \* to prevent endless recursion in children arrays
    IF ~In(TYPE, value)
    THEN Obj([key \in DOMAIN value.m |-> checkTypeField(key, value)])
    ELSE value

deployWalkFunc(value) ==
    IF isPlainObject(value) THEN
        encodeFields(Obj([key \in DOMAIN value.m |->
                            checkReference(key, Assign(value, key, checkT(key, value)))]))
    ELSE IF isArray(value) THEN
        List([index \in 1..Len(value.items) |->
                checkTypeField(index, Assign(value, index, checkT(index, value)))])
    ELSE value

\* walkOnValue of adapter-utils (not among the sources): the function is
\* called on a value before its children are walked.
RECURSIVE walkOnValue(_)
walkChildren(current) ==
    IF isArray(current)
    THEN List([i \in 1..Len(current.items) |-> walkOnValue(current.items[i])])
    ELSE IF isPlainObject(current)
    THEN Obj([key \in DOMAIN current.m |-> walkOnValue(current.m[key])])
    ELSE current

walkOnValue(value) == walkChildren(deployWalkFunc(value))

matchToXmlObjectForm(definitionValues) == walkOnValue(definitionValues)

-----------------------------------------------------------------------------
(* Summary arrays and the result of the write transform *)

\* the outcome of a call that raises
Threw == [k |-> "threw"]
threw(v) == v.k = "threw"

\* `${itemName}s`
plural(itemName) ==
    CASE itemName = "pivot" -> "pivots"
      [] itemName = "chart" -> "charts"
      [] itemName = "dataView" -> "dataViews"

\* createOriginalArray without the test of the script id: a record for
\* every element that is a mapping
createOriginalArrayUnfiltered(itemName, value) ==
    LET arr == Get(value, plural(itemName))
    IN IF isUndefined(arr) THEN List(<<>>)
       ELSE IF ~isArray(arr) THEN Threw
       ELSE List([i \in 1..Len(SelectSeq(arr.items, isPlainObject)) |->
                    Obj("scriptid" :> Get(Get(SelectSeq(arr.items, isPlainObject)[i], itemName),
                                          "scriptId"))])

createOriginalArray(itemName, value) ==
    LET arrName == plural(itemName)
        arr == Get(value, arrName)
        records == [i \in 1..(IF isArray(arr) THEN Len(arr.items) ELSE 0) |->
                      IF /\ isPlainObject(arr.items[i])
                         /\ ~isUndefined(Get(Get(arr.items[i], itemName), "scriptId"))
                      THEN Obj("scriptid" :> Get(Get(arr.items[i], itemName), "scriptId"))
                      ELSE Undef]
    IN IF isUndefined(arr) THEN List(<<>>)
       ELSE IF ~isArray(arr) THEN Threw     \* value[arrName].filter is not a function
       ELSE List(SelectSeq(records, LAMBDA r : ~isUndefined(r)))

createOriginalArrays(value) ==
    LET pivot == createOriginalArray("pivot", value)
        chart == createOriginalArray("chart", value)
        table == createOriginalArray("dataView", value)
    IN IF threw(pivot) \/ threw(chart) \/ threw(table) THEN Threw
       ELSE Obj([ pivots |-> Obj("pivot" :> pivot),
                  charts |-> Obj("chart" :> chart),
                  tables |-> Obj("table" :> table) ])

\* returnToOriginalShape, lines 395-396
definitionValuesOf(value) == Obj(Omit(value.m, originalFields))

\* the root discriminator put on the root itself for either kind
rootDiscriminatorAtRoot(fullDefinitionValues, typeName) ==
    IF fullDefinitionValues.k = "threw" THEN [k |-> "threw"]
    ELSE IF typeName = WORKBOOK
    THEN (IF isPlainObject(Get(fullDefinitionValues, "Workbook"))
          THEN Obj(Put(fullDefinitionValues.m, T, Str("workbook")))
          ELSE [k |-> "threw"])
    ELSE Obj(Put(fullDefinitionValues.m, T, Str("dataSet")))

\* returnToOriginalShape, lines 401-416: the root discriminator and the name
\* lines 401-405
rootDiscriminator(fullDefinitionValues, typeName) ==
    IF threw(fullDefinitionValues) THEN Threw
    ELSE IF typeName = WORKBOOK
    THEN (IF isPlainObject(Get(fullDefinitionValues, "Workbook"))
          THEN Obj(Put(fullDefinitionValues.m, "Workbook",
                       Obj(Put(fullDefinitionValues.m["Workbook"].m, T, Str("workbook")))))
          ELSE Threw)  \* cannot set a property of undefined
    ELSE Obj(Put(fullDefinitionValues.m, T, Str("dataSet")))

\* the name set only where the passes have left none
rootNameIfAbsent(fullDefinitionValues, name) ==
    IF fullDefinitionValues.k = "threw" THEN [k |-> "threw"]
    ELSE IF In("name", fullDefinitionValues) THEN fullDefinitionValues
    ELSE Obj(Put(fullDefinitionValues.m, "name", name))

\* lines 407-416
rootName(fullDefinitionValues, name) ==
    IF threw(fullDefinitionValues) THEN Threw
    ELSE IF /\ isReferenceExpression(Get(name, TEXT))
            /\ checkReferenceToTranslation(getFullName(Get(name, TEXT).elemID))
    THEN Obj(Put(fullDefinitionValues.m, "name",
                 Obj("translationScriptId" :>
                       Str(concatDot(split(getFullName(Get(name, TEXT).elemID))[4],
                                     split(getFullName(Get(name, TEXT).elemID))[7])))))
    ELSE Obj(Put(fullDefinitionValues.m, "name", name))

rootSteps(fullDefinitionValues, value, typeName) ==
    rootName(rootDiscriminator(fullDefinitionValues, typeName), Get(value, "name"))

\* the result built on top of the whole canonical value: every key of the
\* value that the result does not set is kept
withArraysOverValue(fullDefinitionValues, value, arrays) ==
    IF fullDefinitionValues.k = "threw" \/ arrays.k = "threw" THEN [k |-> "threw"]
    ELSE Obj(Spread2(value.m,
                     Spread2([ name |-> Get(value, "name"),
                               scriptid |-> Get(value, "scriptid"),
                               dependencies |-> Get(value, "dependencies"),
                               definition |-> fullDefinitionValues ],
                             arrays.m)))

\* returnToOriginalShape, lines 427-435.  The definition tree stands for
\* the XML text the serializer prints from it.
withArrays(fullDefinitionValues, value, arrays) ==
    IF threw(fullDefinitionValues) \/ threw(arrays) THEN Threw
    ELSE Obj(Spread2([ name |-> Get(value, "name"),
                       scriptid |-> Get(value, "scriptid"),
                       dependencies |-> Get(value, "dependencies"),
                       definition |-> fullDefinitionValues ],
                     arrays.m))

resultOf(fullDefinitionValues, value, typeName) ==
    withArrays(fullDefinitionValues, value,
               IF typeName = WORKBOOK THEN createOriginalArrays(value) ELSE Obj(EmptyMap))

returnToOriginalShape(value, typeName, name) ==
    resultOf(rootSteps(matchToXmlObjectForm(
                 addMissingFields(typeName, name, definitionValuesOf(value), analyticsTypeOf(typeName))),
                 value, typeName),
             value, typeName)

-----------------------------------------------------------------------------
(* Inputs.  A raw document is the parsed XML of a definition: the parser *)
(* yields a number for numeric text, a boolean for the text true/false,  *)
(* and a single child element as the element itself, not as a sequence.  *)

MaxItems == 2     \* longest sequence of a raw dataset document
MaxPivots == 3    \* longest pivots sequence of a workbook value

\* the sequences over S of length at most n
SeqsUpTo(S, n) == UNION {[1..len -> S] : len \in 0..n}

boolSentinel(b) == Obj((TYPE :> Str("boolean")) @@ (TEXT :> Bool(b)))
stringSentinel(text) == Obj((TYPE :> Str("string")) @@ (TEXT :> text))
arraySentinel(items) ==
    IF Len(items) = 0 THEN arrayObject
    ELSE IF Len(items) = 1 THEN Obj((TYPE :> Str("array")) @@ (ITEM :> items[1]))
    ELSE Obj((TYPE :> Str("array")) @@ (ITEM :> List(items)))
tagged(t, m) == Obj(Put(m, T, Str(t)))

\* translation collections
fullCollection ==
    Element(translationElemID("custcollectiontranslations123"),
            Obj([strings |-> Obj([string |-> Obj(
                ("greeting" :> Obj([scriptid |-> Str("greeting")]))
                @@ ("a-b" :> Obj([scriptid |-> Str("a-b")]))
                @@ ("bye" :> Obj([defaultTranslation |-> Str("Bye")])))])]))
poorCollection ==
    Element(translationElemID("custcollectiontranslations123"),
            Obj([strings |-> Obj([string |-> Obj(
                "bye" :> Obj([defaultTranslation |-> Str("Bye")]))])]))

ElementsSources ==
    { EmptyMap,
      "custcollectiontranslations123" :> fullCollection,
      "custcollectiontranslations123" :> poorCollection }
ElementLists == { <<>>, <<fullCollection>>, <<poorCollection>> }

TranslationStrings ==
    { "custcollectiontranslations123.greeting",
      "custcollectiontranslations123.bye",
      "custcollectiontranslations123.a-b",
      "custcollectiontranslations9.greeting",
      "custcollectiontranslations123",
      "custcollectiontranslations123.greeting.x",
      "123.greeting" }

\* raw values of the fields of a dataset definition
rawTranslations == {nullObject} \cup {Obj([translationScriptId |-> Str(s)]) : s \in TranslationStrings}

rawFieldReference ==
    tagged("fieldReference",
           [ id |-> Str("f1"), joinTrail |-> nullObject, label |-> Str("Label"),
             uniqueId |-> stringSentinel(Num("5")) ])

rawFormula(formula) ==
    tagged("dataSetFormula", [ fields |-> arrayObject, formula |-> formula ])

rawFormulaFormulas ==
    { tagged("formula", [ dataType |-> Str("STRING"), formulaSQL |-> Str("sql"), id |-> Str("f2"),
                          label |-> nullObject, uniqueId |-> Str("u2") ]),
      \* a formula all of whose fields but one are null
      tagged("formula", [ dataType |-> nullObject, formulaSQL |-> Str("sql"), id |-> nullObject,
                          label |-> nullObject, uniqueId |-> nullObject ]) }

rawFieldOrFormulas == {rawFieldReference} \cup {rawFormula(f) : f \in rawFormulaFormulas}

rawFilter ==
    tagged("filter",
           [ caseSensitive |-> boolSentinel(FALSE), expressions |-> arrayObject,
             operator |-> Obj([code |-> Str("ANY_OF")]),
             targetFieldContext |-> Obj([name |-> Str("DEFAULT")]),
             field |-> rawFieldReference, fieldStateName |-> nullObject, meta |-> nullObject ])

rawCondition(children) ==
    tagged("condition",
           [ children |-> arraySentinel(children),
             operator |-> Obj([code |-> Str("AND")]),
             targetFieldContext |-> Obj([name |-> Str("DEFAULT")]),
             meta |-> nullObject, field |-> nullObject, fieldStateName |-> nullObject ])

rawCriteria == { rawCondition(<<>>), rawCondition(<<rawFilter>>), rawCondition(<<rawFilter, rawCondition(<<>>)>>) }

rawDatasetRoot(description, formulas, criteria) ==
    tagged("dataSet",
           [ name |-> Str("My dataset"),
             applicationId |-> nullObject,
             audience |-> Obj([AudienceItems |-> arrayObject, isPublic |-> boolSentinel(TRUE)]),
             baseRecord |-> Obj([id |-> Str("customer"), label |-> Str("Customer")]),
             columns |-> arrayObject,
             criteria |-> criteria,
             description |-> description,
             formulas |-> arraySentinel(formulas),
             id |-> nullObject,
             ownerId |-> Num("5"),
             version |-> stringSentinel(Num("0.1")),
             scriptId |-> nullObject,
             scriptid |-> nullObject,
             dependencies |-> nullObject,
             definition |-> nullObject ])

\* the instance as the adapter builds it before the filter runs
rawInstanceValue(root) ==
    Obj([ scriptid |-> Str("custdataset1"), name |-> Str("My dataset"),
          dependencies |-> Obj([dependency |-> List(<<Str("custrecord1")>>)]),
          definition |-> root ])

\* a name the fetch of another filter has resolved: { '#text': Reference }
referencedName ==
    Obj(TEXT :> Ref(translationElemID("custcollectiontranslations123")
                    \o <<"strings", "string", "greeting", "scriptid">>))

\* dataset values as a workspace hands them to preDeploy: the value a fetch
\* stored, edited by the user
workspaceCriteria ==
    { Obj(T :> Str("condition")),
      Obj("condition" :> Obj("operator" :> Obj("code" :> Str("OR")))),
      Obj((T :> Str("condition")) @@ ("condition" :> Obj("operator" :> Obj("code" :> Str("OR"))))),
      Obj("filter" :> Obj("caseSensitive" :> Bool(TRUE))) }

workspaceDataset(name, criteria, version) ==
    Obj([ scriptid |-> Str("custdataset1"), name |-> name,
          baseRecord |-> Obj([id |-> Str("customer")]),
          criteria |-> criteria, version |-> version ])

WorkspaceDatasets ==
    { workspaceDataset(n, c, v) :
        n \in {Str("My dataset"), referencedName}, c \in workspaceCriteria,
        v \in {Str("0.1"), Str("v1")} }

\* the References a workspace value can hold under translationScriptId: to
\* a translation string, to a string whose id is not a word, and to the
\* collection itself
workspaceReferences ==
    { Ref(translationElemID("custcollectiontranslations123")
          \o <<"strings", "string", "greeting", "scriptid">>),
      Ref(translationElemID("custcollectiontranslations123")
          \o <<"strings", "string", "a-b", "scriptid">>),
      Ref(translationElemID("custcollectiontranslations123")) }

WorkspaceReferenceDatasets ==
    { Obj(Put(workspaceDataset(Str("My dataset"),
                               Obj("condition" :> Obj("operator" :> Obj("code" :> Str("OR")))),
                               Str("0.1")).m,
              "description", Obj("translationScriptId" :> r))) :
        r \in workspaceReferences }

\* workbook values
pivotElements ==
    { Obj("pivot" :> Obj([scriptId |-> Str("custpivot1"), name |-> Str("P1")])),
      Obj("pivot" :> Obj([scriptId |-> Str("custpivot2")])),
      Obj("pivot" :> Obj([name |-> Str("P3")])),
      Str("custpivot4") }
chartElements ==
    { Obj("chart" :> Obj([scriptId |-> Str("custchart1")])),
      Obj("pivot" :> Obj([scriptId |-> Str("custpivot1")])) }
dataViewElements ==
    { Obj("dataView" :> Obj([scriptId |-> Str("custview1")])),
      Obj("dataView" :> Obj([name |-> Str("V2")])) }

workbookValue(pivots, charts, dataViews) ==
    Obj([ scriptid |-> Str("custworkbook1"), name |-> Str("My workbook"),
          Workbook |-> Obj([id |-> Str("w1")]),
          pivots |-> List(pivots), charts |-> List(charts), dataViews |-> List(dataViews) ])

WorkbookValues ==
    { workbookValue(p, <<>>, <<>>) : p \in SeqsUpTo(pivotElements, MaxPivots) }
    \cup { workbookValue(<<>>, c, d) :
             c \in SeqsUpTo(chartElements, MaxItems), d \in SeqsUpTo(dataViewElements, MaxItems) }
    \cup { Obj(Omit(workbookValue(<<>>, <<>>, <<>>).m, {"pivots", "charts"})),
           Obj(Omit(workbookValue(<<>>, <<>>, <<>>).m, {"Workbook"})),
           Obj(Put(workbookValue(<<>>, <<>>, <<>>).m, "pivots",
                   Obj("pivot" :> Obj([scriptId |-> Str("custpivot1")])))) }

\* raw mappings that carry a discriminator
taggedMappings ==
    { tagged("record", [id |-> Str("customer"), label |-> Str("Customer")]),
      tagged("condition", [operator |-> Obj([code |-> Str("AND")]), meta |-> nullObject]),
      tagged("formula", [formulaSQL |-> Str("sql")]),
      tagged("x", EmptyMap) }

\* the schema nodes a mapping can be found at: none (the type of the field
\* cannot be determined), a primitive, a list, an object type that is not
\* a tagged union, and tagged unions
schemaNodes ==
    { NoField, Plain(STRING_T), Plain(UNKNOWN_T), Plain(ListType(STRING_T)),
      Plain(ObjRef("dataset_baseRecord")), Plain(ObjRef("dataset_criteria")),
      Plain(ObjRef("dataset_formula_formula")) }

\* a raw dataset whose baseRecord, not a tagged union, carries a discriminator
rawTaggedBaseRecordRoot ==
    Obj(Put(rawDatasetRoot(nullObject, <<>>, rawCondition(<<>>)).m, "baseRecord",
            tagged("record", [id |-> Str("customer"), label |-> Str("Customer")])))

\* a raw dataset whose ownerId is a wrapper with a discriminator other than
\* null, array, boolean and string
rawNumberSentinelRoot ==
    Obj(Put(rawDatasetRoot(nullObject, <<>>, rawCondition(<<>>)).m, "ownerId",
            Obj((TYPE :> Str("number")) @@ (TEXT :> Num("5")))))

\* raw datasets that hold a translation string outside translationScriptId:
\* under the label of the base record, and as an element of a sequence
rawReferenceElsewhereRoots ==
    { Obj(Put(rawDatasetRoot(nullObject, <<>>, rawCondition(<<>>)).m, "baseRecord",
              Obj([id |-> Str("customer"),
                   label |-> Str("custcollectiontranslations123.greeting")]))),
      Obj(Put(rawDatasetRoot(nullObject, <<>>, rawCondition(<<>>)).m, "audience",
              Obj([AudienceItems |->
                       arraySentinel(<<Str("custcollectiontranslations123.greeting"), Str("all")>>),
                   isPublic |-> boolSentinel(TRUE)]))) }

\* a raw dataset without criteria
rawNoCriteriaRoot == rawDatasetRoot(nullObject, <<>>, nullObject)

\* a dataset of the workspace without criteria
workspaceNoCriteria ==
    Obj([ scriptid |-> Str("custdataset1"), name |-> Str("My dataset"),
          baseRecord |-> Obj([id |-> Str("customer")]), version |-> Str("0.1") ])

\* a dataset of the workspace whose definition holds one field only
workspaceOneField ==
    Obj([ scriptid |-> Str("custdataset1"), name |-> Str("My dataset"),
          baseRecord |-> Obj([id |-> Str("customer")]) ])

\* datasets of the workspace by their names: a numeric-looking string, a
\* Reference to a string whose id is not a word, a Reference to the
\* collection itself, a Reference outside #text
WorkspaceNamedDatasets ==
    { workspaceDataset(n, Obj("condition" :> Obj("operator" :> Obj("code" :> Str("OR")))),
                       Str("v1")) :
        n \in { Str("5"),
                Obj(TEXT :> Ref(translationElemID("custcollectiontranslations123")
                                \o <<"strings", "string", "a-b", "scriptid">>)),
                Obj(TEXT :> Ref(translationElemID("custcollectiontranslations123"))),
                Obj("translationScriptId" :>
                      Ref(translationElemID("custcollectiontranslations123")
                          \o <<"strings", "string", "greeting", "scriptid">>)) } }

\* canonical field values handed to the sentinel encoder
canonicalFieldValues ==
    { Bool(TRUE), Bool(FALSE), Str("5"), Str("0.1"), Str(""), Str("sql"), Num("5"),
      List(<<>>), List(<<Str("a")>>), List(<<Str("a"), Bool(TRUE)>>),
      Obj([id |-> Str("f1")]) }

\* sentinel wrappers of a raw document: the text of a scalar wrapper as
\* the parser types it (a boolean, a number) and as text; the payload of
\* an array wrapper absent, a sequence, one scalar, one mapping
sentinelWrappers ==
    { Obj((TYPE :> Str("boolean")) @@ (TEXT :> t)) :
        t \in {Bool(TRUE), Bool(FALSE), Str("true"), Str("false")} }
    \cup { Obj((TYPE :> Str("string")) @@ (TEXT :> t)) :
              t \in {Str("sql"), Str("5"), Num("5"), Num("0.1"), Bool(TRUE)} }
    \cup { arrayObject,
           Obj((TYPE :> Str("array")) @@ (ITEM :> List(<<Str("a"), Str("b")>>))),
           Obj((TYPE :> Str("array")) @@ (ITEM :> List(<<Str("a")>>))),
           Obj((TYPE :> Str("array")) @@ (ITEM :> Str("a"))),
           Obj((TYPE :> Str("array")) @@ (ITEM :> Num("5"))),
           Obj((TYPE :> Str("array")) @@ (ITEM :> Obj([id |-> Str("f1")]))),
           Obj((TYPE :> Str("array")) @@ (ITEM :> arrayObject)) }

\* values of a raw workbook definition: strings, translation strings among
\* them, a number, and mappings that carry a discriminator
workbookRawValues ==
    {Str(s) : s \in TranslationStrings \cup {"sql"}}
    \cup {Num("5"), tagged("workbook", [id |-> Str("w1")]), tagged("pivot", [id |-> Str("p1")])}

\* the fields placeholder synthesis can be asked for
synthesisTargets ==
    UNION { {<<name, key>> : key \in DOMAIN datasetTypes[name].fields} :
            name \in DOMAIN datasetTypes }

-----------------------------------------------------------------------------
(* The life cycle of an analytics instance *)

instanceName == "instance1"

NoProbe == [op |-> "none"]

Init ==
    /\ canonical = Undef
    /\ completed = Undef
    /\ encoded = Undef
    /\ probe = NoProbe
    /\ schemaDefault = criteriaDefault
    /\ phase = "idle"
    /\ tasks = <<>>
    /\ initialElements = <<>>
    /\ inFlight = <<>>
    /\ \/ \* a dataset the adapter has just read, its description varied
          /\ stage = "raw"
          /\ kind = DATASET
          /\ \E d \in rawTranslations :
                rawRoot = rawDatasetRoot(d, <<>>, rawCondition(<<>>))
          /\ instValue = rawInstanceValue(rawRoot)
          /\ elementsSource \in ElementsSources
          /\ elements \in ElementLists
       \/ \* a dataset the adapter has just read, its formulas and criteria varied
          /\ stage = "raw"
          /\ kind = DATASET
          /\ \E f \in SeqsUpTo(rawFieldOrFormulas, MaxItems), c \in rawCriteria :
                rawRoot = rawDatasetRoot(nullObject, f, c)
          /\ instValue = rawInstanceValue(rawRoot)
          /\ elementsSource = EmptyMap
          /\ elements = <<>>
       \/ \* a dataset the adapter has just read, with an unexpected discriminator,
          \* an unexpected sentinel, no criteria
          /\ stage = "raw"
          /\ kind = DATASET
          /\ rawRoot \in {rawTaggedBaseRecordRoot, rawNumberSentinelRoot, rawNoCriteriaRoot}
          /\ instValue = rawInstanceValue(rawRoot)
          /\ elementsSource = EmptyMap
          /\ elements = <<>>
       \/ \* a dataset the adapter has just read, with a translation string
          \* outside translationScriptId
          /\ stage = "raw"
          /\ kind = DATASET
          /\ rawRoot \in rawReferenceElsewhereRoots
          /\ instValue = rawInstanceValue(rawRoot)
          /\ elementsSource \in {EmptyMap, "custcollectiontranslations123" :> fullCollection}
          /\ elements = <<>>
       \/ \* an instance of the workspace, changed and about to be deployed
          /\ stage = "workspace"
          /\ \/ kind = DATASET
                /\ instValue \in WorkspaceDatasets \cup WorkspaceReferenceDatasets
                                 \cup {workspaceNoCriteria, workspaceOneField}
                                 \cup WorkspaceNamedDatasets
             \/ kind = WORKBOOK /\ instValue \in WorkbookValues
          /\ rawRoot = Undef
          /\ elementsSource = EmptyMap
          /\ elements = <<>>
       \/ \* the helpers on their own
          /\ stage = "helpers"
          /\ kind = DATASET
          /\ instValue = Undef
          /\ rawRoot = Undef
          /\ elementsSource = EmptyMap
          /\ elements = <<>>

\* onFetch: the instance is given the parsed analytics type and its
\* definition is normalized
OnFetch ==
    /\ stage = "raw"
    /\ instValue' = createAnalyticsInstances(instValue, kind, instanceName, elementsSource,
                                             elements, analyticsTypeOf(kind))
    /\ stage' = "fetched"
    /\ UNCHANGED <<kind, rawRoot, elementsSource, elements, canonical, completed, encoded, probe,
                   schemaDefault>>
    /\ UNCHANGED fetchVars

\* preDeploy: instance.value = returnToOriginalShape(instance, type)
\* the instance after returnToOriginalShape; a raise leaves it as it was
assignResult(value, result) == IF threw(result) THEN value ELSE result

PreDeploy ==
    /\ stage \in {"fetched", "workspace"}
    /\ canonical' = instValue
    /\ completed' = addMissingFields(kind, instanceName, definitionValuesOf(instValue),
                                     analyticsTypeOf(kind))
    /\ encoded' = matchToXmlObjectForm(completed')
    /\ instValue' = assignResult(instValue,
                                 resultOf(rootSteps(encoded', instValue, kind), instValue, kind))
    /\ stage' = IF threw(resultOf(rootSteps(encoded', instValue, kind), instValue, kind))
                THEN "threw" ELSE "deployed"
    /\ schemaDefault' = schemaDefaultAfter(definitionValuesOf(instValue), kind, instanceName,
                                           analyticsTypeOf(kind))
    /\ UNCHANGED <<kind, rawRoot, elementsSource, elements, probe>>
    /\ UNCHANGED fetchVars

\* checkTypeField on a field of a mapping, and fetchTransformFunc on what
\* it returned
EncodeThenDecode ==
    /\ stage = "helpers"
    /\ \E v \in canonicalFieldValues :
          LET wire == checkTypeField("field", Obj("field" :> v))
          IN probe' = [ op |-> "sentinel", v |-> v, wire |-> wire,
                        back |-> fetchTransformFunc(wire, NoField,
                                     instanceElemID(DATASET, instanceName) \o <<"field">>,
                                     EmptyMap, <<>>, ParsedDatasetType) ]
    /\ UNCHANGED <<stage, kind, instValue, rawRoot, elementsSource, elements, canonical,
                   completed, encoded, schemaDefault>>
    /\ UNCHANGED fetchVars

\* createEmptyObjectOfType on a field of a dataset type
SynthesizePlaceholder ==
    /\ stage = "helpers"
    /\ \E target \in synthesisTargets :
          probe' = [ op |-> "empty", type |-> target[1], key |-> target[2],
                     result |-> createEmptyObjectOfType(ObjRef(target[1]), target[2]) ]
    /\ UNCHANGED <<stage, kind, instValue, rawRoot, elementsSource, elements, canonical,
                   completed, encoded, schemaDefault>>
    /\ UNCHANGED fetchVars

\* fetchTransformFunc on a mapping that carries a discriminator, found at a
\* schema node
NormalizeTagged ==
    /\ stage = "helpers"
    /\ \E value \in taggedMappings, field \in schemaNodes :
          probe' = [ op |-> "tagged", value |-> value, field |-> field,
                     result |-> fetchTransformFunc(value, field,
                                    instanceElemID(DATASET, instanceName) \o <<"field">>,
                                    EmptyMap, <<>>, ParsedDatasetType) ]
    /\ UNCHANGED <<stage, kind, instValue, rawRoot, elementsSource, elements, canonical,
                   completed, encoded, schemaDefault>>
    /\ UNCHANGED fetchVars

\* fetchTransformFunc on a sentinel wrapper, found at a schema node
DecodeSentinel ==
    /\ stage = "helpers"
    /\ \E value \in sentinelWrappers, field \in schemaNodes :
          probe' = [ op |-> "decode", value |-> value, field |-> field,
                     result |-> fetchTransformFunc(value, field,
                                    instanceElemID(DATASET, instanceName) \o <<"field">>,
                                    EmptyMap, <<>>, ParsedDatasetType) ]
    /\ UNCHANGED <<stage, kind, instValue, rawRoot, elementsSource, elements, canonical,
                   completed, encoded, schemaDefault>>
    /\ UNCHANGED fetchVars

-----------------------------------------------------------------------------
(* The workbook change validator *)

unsupportedAttributes == <<"charts", "pivots", "datasetLinks">>

\* a validity test that looks at the values under the keys, not at the keys
checkWorkbookValidityByValue(workbookInstance) ==
    SelectSeq(unsupportedAttributes,
              LAMBDA attr : /\ attr \in DOMAIN workbookInstance.value.m
                            /\ workbookInstance.value.m[attr] \notin {Undef, List(<<>>)}) = <<>>

\* _.isEmpty(unsupportedAttributes.filter(attr => attr in workbookInstance.value))
checkWorkbookValidity(workbookInstance) ==
    SelectSeq(unsupportedAttributes,
              LAMBDA attr : attr \in DOMAIN workbookInstance.value.m) = <<>>

\* a change of a deployment: its action and the element before and after
Change(action, before, after) == [action |-> action, before |-> before, after |-> after]
getChangeData(change) == IF change.action = "remove" THEN change.before ELSE change.after
isInstanceChange(change) == getChangeData(change).k = "inst"

ChangeError(elemID) == [elemID |-> elemID, severity |-> "Warning"]

\* changes.filter(isInstanceChange).map(getChangeData)
\*   .filter(inst => inst.elemID.typeName === WORKBOOK)
\*   .filter(_.negate(checkWorkbookValidity)).map(({ elemID }) => ...)
changeValidator(changes) ==
    LET instanceChanges == SelectSeq(changes, isInstanceChange)
        instances == [i \in 1..Len(instanceChanges) |-> getChangeData(instanceChanges[i])]
        workbooks == SelectSeq(instances, LAMBDA inst : inst.elemID[2] = WORKBOOK)
        invalid == SelectSeq(workbooks, LAMBDA inst : ~checkWorkbookValidity(inst))
    IN [i \in 1..Len(invalid) |-> ChangeError(invalid[i].elemID)]

\* the values of the changed workbooks, by instance name: with none of the
\* three keys, with one of them over a sequence, over undefined or over an
\* empty sequence, and with all three
changedValues ==
    [ custworkbook1 |-> Obj("name" :> Str("w")),
      custworkbook2 |-> Obj(("name" :> Str("w")) @@ ("charts" :> List(<<Str("p")>>))),
      custworkbook3 |-> Obj(("name" :> Str("w")) @@ ("pivots" :> Undef)),
      custworkbook4 |-> Obj("datasetLinks" :> List(<<>>)),
      custworkbook5 |-> Obj([key \in {"charts", "pivots", "datasetLinks"} |-> List(<<Str("p")>>)]) ]

\* the changes of a deployment: additions of workbooks and of a dataset,
\* the modification and the removal of a workbook, and changes of the
\* workbook object type and of a field of it, which are no instance changes
changePool ==
    { Change("add", Undef, Element(instanceElemID(WORKBOOK, name), changedValues[name])) :
        name \in DOMAIN changedValues }
    \cup
    { Change("add", Undef, Element(instanceElemID(DATASET, "custdataset1"),
                                   Obj("pivots" :> List(<<Str("p")>>)))),
      Change("modify", Element(instanceElemID(WORKBOOK, "custworkbook6"),
                               Obj("pivots" :> List(<<Str("p")>>))),
                       Element(instanceElemID(WORKBOOK, "custworkbook6"),
                               Obj("name" :> Str("w")))),
      Change("remove", Element(instanceElemID(WORKBOOK, "custworkbook7"),
                               Obj("datasetLinks" :> List(<<>>))), Undef),
      Change("modify", [k |-> "type", elemID |-> <<NETSUITE, WORKBOOK>>, value |-> Obj(EmptyMap)],
                       [k |-> "type", elemID |-> <<NETSUITE, WORKBOOK>>, value |-> Obj(EmptyMap)]),
      Change("add", Undef, [k |-> "field", elemID |-> <<NETSUITE, WORKBOOK, "field", "pivots">>,
                            value |-> Obj("pivots" :> Str("p"))]) }

MaxChanges == 2    \* most changes handed to the change validator

\* the change validator runs on the changes of a deployment
ValidateChanges ==
    /\ stage = "helpers"
    /\ \E changes \in SeqsUpTo(changePool, MaxChanges) :
          probe' = [ op |-> "validate", changes |-> changes,
                     errors |-> changeValidator(changes),
                     valid |-> [i \in 1..Len(changes) |->
                                  IF isInstanceChange(changes[i])
                                  THEN checkWorkbookValidity(getChangeData(changes[i]))
                                  ELSE TRUE] ]
    /\ UNCHANGED <<stage, kind, instValue, rawRoot, elementsSource, elements, canonical,
                   completed, encoded, schemaDefault>>
    /\ UNCHANGED fetchVars

MaxNesting == 5    \* most levels of nested calls of createEmptyObjectOfType followed

\* createEmptyObjectOfType is called on a field of a dataset type
BeginSynthesis ==
    /\ stage = "helpers"
    /\ \E target \in synthesisTargets :
          probe' = [ op |-> "calls", type |-> target[1], key |-> target[2],
                     pending |-> {target}, depth |-> 0 ]
    /\ UNCHANGED <<stage, kind, instValue, rawRoot, elementsSource, elements, canonical,
                   completed, encoded, schemaDefault>>
    /\ UNCHANGED fetchVars

\* the calls of one level run and make the calls of the next level
Descend ==
    /\ stage = "helpers"
    /\ probe.op = "calls"
    /\ probe.pending # {}
    /\ probe.depth <= MaxNesting
    /\ probe' = [probe EXCEPT
                    !.pending = UNION {nestedCalls(ObjRef(call[1]), call[2]) : call \in probe.pending},
                    !.depth = probe.depth + 1]
    /\ UNCHANGED <<stage, kind, instValue, rawRoot, elementsSource, elements, canonical,
                   completed, encoded, schemaDefault>>
    /\ UNCHANGED fetchVars

\* fetchTransformFunc of the parseWorkbook filter on a scalar or a mapping
\* of a workbook definition, found at a schema node
WorkbookNormalize ==
    /\ stage = "helpers"
    /\ \E value \in workbookRawValues, field \in schemaNodes :
          probe' = [ op |-> "workbook", value |-> value, field |-> field,
                     result |-> workbookFetchTransformFunc(value, field,
                                    instanceElemID(WORKBOOK, instanceName) \o <<"field">>) ]
    /\ UNCHANGED <<stage, kind, instValue, rawRoot, elementsSource, elements, canonical,
                   completed, encoded, schemaDefault>>
    /\ UNCHANGED fetchVars

Next ==
    \/ OnFetch
    \/ PreDeploy
    \/ EncodeThenDecode
    \/ SynthesizePlaceholder
    \/ NormalizeTagged
    \/ DecodeSentinel
    \/ WorkbookNormalize
    \/ ValidateChanges
    \/ BeginSynthesis
    \/ Descend

Spec == Init /\ [][Next]_vars

-----------------------------------------------------------------------------
(* onFetch over the elements of a fetch.  The elements are object types  *)
(* and instances; an object type is told by its name and by who built    *)
(* it: the adapter, before the filter runs, or the filter, in            *)
(* ParsedWorkbookType() and ParsedDatasetType().                         *)

TypeElement(name, origin) == [k |-> "type", elemID |-> <<NETSUITE, name>>, origin |-> origin]
InstanceElement(elemID, type, value) ==
    [k |-> "inst", elemID |-> elemID, type |-> type, value |-> value]

isObjectTypeElement(e) == e.k = "type"
isInstanceElement(e) == e.k = "inst"
\* elemID.typeName and elemID.name
typeNameOf(e) == e.elemID[2]
nameOf(e) == e.elemID[Len(e.elemID)]

\* the inner types of ParsedDatasetType(), in the order they are entered
datasetInnerTypes ==
    << "dataset_audience", "dataset_dependencies", "dataset_baseRecord", "dataset_join",
       "dataset_joinTrail", "dataset_fieldReference", "dataset_translation",
       "dataset_formula_formula", "dataset_formula", "dataset_fieldOrFormula", "dataset_column",
       "dataset_criteria_expression_value", "dataset_criteria_expression", "dataset_meta",
       "dataset_operator", "dataset_criteria_TargetFieldContext", "dataset_filter",
       "dataset_condition", "dataset_criteria" >>

\* The inner types of ParsedWorkbookType() are not among the sources: one
\* inner type stands for them.
workbookInnerTypes == << "workbook_definition" >>

innerTypesOf(name) == IF name = WORKBOOK THEN workbookInnerTypes ELSE datasetInnerTypes

\* { type, innerTypes } as the elements pushed: the type, then the inner types
TypeAndInnerTypes(name) ==
    <<TypeElement(name, "parsed")>>
    \o [i \in 1..Len(innerTypesOf(name)) |-> TypeElement(innerTypesOf(name)[i], "parsed")]

\* name.startsWith(prefix) for the names of the object types of the model
\* and the names of the two analytics types
startsWith(name, prefix) ==
    \/ name = prefix
    \/ prefix = DATASET
         /\ name \in {datasetInnerTypes[i] : i \in DOMAIN datasetInnerTypes} \cup {"dataset_legacy"}
    \/ prefix = WORKBOOK
         /\ name \in {workbookInnerTypes[i] : i \in DOMAIN workbookInnerTypes} \cup {"workbook_legacy"}

\* the two _.remove of object types, lines 442-443, with the exact match
\* only
removeTypesExact(els, name) ==
    SelectSeq(els, LAMBDA e : ~(isObjectTypeElement(e) /\ typeNameOf(e) = name))

\* the two _.remove of object types, lines 442-443
removeTypes(els, name) ==
    SelectSeq(SelectSeq(els, LAMBDA e : ~(isObjectTypeElement(e) /\ typeNameOf(e) = name)),
              LAMBDA e : ~(isObjectTypeElement(e) /\ startsWith(nameOf(e), name)))

\* the instances _.remove takes out of the elements, lines 444-445
analyticInstancesOf(els, name) ==
    SelectSeq(els, LAMBDA e : isInstanceElement(e) /\ typeNameOf(e) = name)
withoutInstancesOf(els, name) ==
    SelectSeq(els, LAMBDA e : ~(isInstanceElement(e) /\ typeNameOf(e) = name))

cloneReportInstance(instance, type) ==
    InstanceElement(instanceElemID(nameOf(type), nameOf(instance)), type, instance.value)

\* a call of createAnalyticsInstances that has run up to its first await:
\* the definition is parsed
startedCall(instance) ==
    [ instance |-> instance,
      pc |-> "parsed",
      definitionValues |-> Obj(Omit(instance.value.m["definition"].m, {"name"})),
      updatedValues |-> Undef ]

\* a step of a call that writes the state of every call in flight
setEveryTask(ts, i, task) == [j \in DOMAIN ts |-> task]

\* a step of a call writes the state of that call: its own locals and the
\* value of its own instance
setTask(ts, i, task) == [ts EXCEPT ![i] = task]

\* the analytics type onFetch is working on
currentType == IF phase \in {"start", "workbooks"} THEN WORKBOOK ELSE DATASET

\* changeType up to the map over the instances, lines 442-452
BeginChangeType ==
    /\ phase \in {"start", "workbooks done"}
    /\ elements' = withoutInstancesOf(removeTypes(elements, currentType), currentType)
                     \o TypeAndInnerTypes(currentType)
    /\ tasks' = [i \in 1..Len(analyticInstancesOf(elements, currentType)) |->
                    startedCall(cloneReportInstance(analyticInstancesOf(elements, currentType)[i],
                                                    TypeElement(currentType, "parsed")))]
    /\ inFlight' = elements'
    /\ phase' = IF phase = "start" THEN "workbooks" ELSE "datasets"
    /\ UNCHANGED <<elementsSource, initialElements>>
    /\ UNCHANGED instanceVars

\* createAnalyticsInstances, lines 176-183: the await of transformValues
TaskTransform(i) ==
    /\ phase \in {"workbooks", "datasets"}
    /\ tasks[i].pc = "parsed"
    /\ tasks' = setTask(tasks, i,
                    [tasks[i] EXCEPT
                        !.pc = "transformed",
                        !.updatedValues =
                            transformValues(FetchCtx(elementsSource, elements,
                                                     analyticsTypeOf(currentType)),
                                            tasks[i].definitionValues,
                                            analyticsTypeOf(currentType),
                                            tasks[i].instance.elemID)])
    /\ UNCHANGED <<elementsSource, elements, phase, initialElements, inFlight>>
    /\ UNCHANGED instanceVars

\* createAnalyticsInstances, lines 185-192
TaskAssign(i) ==
    /\ phase \in {"workbooks", "datasets"}
    /\ tasks[i].pc = "transformed"
    /\ tasks' = setTask(tasks, i,
                    [tasks[i] EXCEPT
                        !.pc = "done",
                        !.instance.value = withUpdatedValues(tasks[i].instance.value,
                                                             tasks[i].updatedValues)])
    /\ UNCHANGED <<elementsSource, elements, phase, initialElements, inFlight>>
    /\ UNCHANGED instanceVars

\* elements.push(...await Promise.all(parsedAnalyticInstances)), line 453
FinishChangeType ==
    /\ phase \in {"workbooks", "datasets"}
    /\ \A i \in DOMAIN tasks : tasks[i].pc = "done"
    /\ elements' = elements \o [i \in DOMAIN tasks |-> tasks[i].instance]
    /\ tasks' = <<>>
    /\ phase' = IF phase = "workbooks" THEN "workbooks done" ELSE "done"
    /\ UNCHANGED <<elementsSource, initialElements, inFlight>>
    /\ UNCHANGED instanceVars

MaxInstances == 2     \* most analytics instances among the elements of a fetch

\* the sequences over S of length at most n without a repeated element
InjectiveSeqsUpTo(S, n) ==
    {q \in SeqsUpTo(S, n) : \A i, j \in DOMAIN q : i # j => q[i] # q[j]}

\* the analytics instances the adapter has read: two datasets, one of them
\* with a translation string, and a workbook
fetchedInstances ==
    { InstanceElement(instanceElemID(DATASET, "dataset1"), TypeElement(DATASET, "adapter"),
          rawInstanceValue(rawDatasetRoot(
              Obj([translationScriptId |-> Str("custcollectiontranslations123.greeting")]),
              <<>>, rawCondition(<<>>)))),
      InstanceElement(instanceElemID(DATASET, "dataset2"), TypeElement(DATASET, "adapter"),
          rawInstanceValue(rawDatasetRoot(nullObject, <<rawFieldReference>>,
                                          rawCondition(<<rawFilter>>)))),
      InstanceElement(instanceElemID(WORKBOOK, "workbook1"), TypeElement(WORKBOOK, "adapter"),
          Obj([ scriptid |-> Str("custworkbook1"), name |-> Str("My workbook"),
                definition |-> Obj([ name |-> Str("My workbook"),
                                     Workbook |-> Obj([id |-> Str("w1")]),
                                     pivots |-> arrayObject ]) ])) }

\* the other elements of a fetch: object types of the adapter, of the
\* names of the analytics types and of other names, and translation
\* collections
otherElements ==
    { <<>>,
      << TypeElement(DATASET, "adapter"), TypeElement("dataset_audience", "adapter"),
         TypeElement("dataset_legacy", "adapter"), TypeElement(WORKBOOK, "adapter"),
         TypeElement("workbook_legacy", "adapter"), TypeElement("customrecordtype", "adapter"),
         fullCollection >>,
      << poorCollection, TypeElement("customrecordtype", "adapter") >> }

InitialElements ==
    UNION { {others \o instances, instances \o others} :
              others \in otherElements,
              instances \in InjectiveSeqsUpTo(fetchedInstances, MaxInstances) }

FetchInit ==
    /\ stage = "list"
    /\ kind = DATASET
    /\ instValue = Undef
    /\ rawRoot = Undef
    /\ canonical = Undef
    /\ completed = Undef
    /\ encoded = Undef
    /\ probe = NoProbe
    /\ schemaDefault = criteriaDefault
    /\ elementsSource \in {EmptyMap, "custcollectiontranslations123" :> poorCollection}
    /\ elements \in InitialElements
    /\ initialElements = elements
    /\ phase = "start"
    /\ tasks = <<>>
    /\ inFlight = <<>>

FetchNext ==
    \/ BeginChangeType
    \/ \E i \in DOMAIN tasks : TaskTransform(i)
    \/ \E i \in DOMAIN tasks : TaskAssign(i)
    \/ FinishChangeType

FetchSpec == FetchInit /\ [][FetchNext]_vars

-----------------------------------------------------------------------------
(* The definition text.  The serializer prints a boolean and a number as *)
(* their text and a sequence as its items one after the other, so that   *)
(* two definition trees print the same text exactly when they are equal  *)
(* once every scalar is replaced by its text and every sequence of one   *)
(* item by the item.                                                     *)

RECURSIVE xmlForm(_)
xmlForm(v) ==
    CASE isPlainObject(v) -> Obj([key \in DOMAIN v.m |-> xmlForm(v.m[key])])
      [] isArray(v) -> IF Len(v.items) = 1 THEN xmlForm(v.items[1])
                       ELSE List([i \in 1..Len(v.items) |-> xmlForm(v.items[i])])
      [] v.k \in {"bool", "num"} -> String(v)
      [] OTHER -> v

-----------------------------------------------------------------------------
(* Properties *)

\* C1: for every raw dataset document that follows the schema, the
\* definition tree the deploy emits for the fetched instance prints the
\* same text as the raw document, up to the order of the fields.
RoundTripIdentity ==
    (stage = "deployed" /\ kind = DATASET /\ rawRoot # Undef)
        => xmlForm(instValue.m["definition"]) = xmlForm(rawRoot)

\* the items an array sentinel of a wire-shaped tree holds
wireItems(sentinel) ==
    IF ~In(ITEM, sentinel) THEN <<>>
    ELSE IF isArray(sentinel.m[ITEM]) THEN sentinel.m[ITEM].items
    ELSE <<sentinel.m[ITEM]>>

\* the items of a sequence field of a canonical mapping
fieldItems(v, key) == IF In(key, v) THEN v.m[key].items ELSE <<>>

\* a dataset that was fetched from a raw document and then deployed
fetchedAndDeployed == stage = "deployed" /\ kind = DATASET /\ rawRoot # Undef

\* The tagged-union nodes of the document, each as <<raw node, canonical
\* node, node after field completion, node after wire re-encoding>>: the
\* criteria (the value of a mapping field) and the formulas (the elements
\* of a sequence).
unionNodes ==
    (IF In(T, rawRoot.m["criteria"])
     THEN { << rawRoot.m["criteria"], canonical.m["criteria"],
               completed.m["criteria"], encoded.m["criteria"] >> }
     ELSE {})
    \cup { << wireItems(rawRoot.m["formulas"])[i], fieldItems(canonical, "formulas")[i],
              fieldItems(completed, "formulas")[i], wireItems(encoded.m["formulas"])[i] >> :
           i \in 1..Len(wireItems(rawRoot.m["formulas"])) }

\* the entry of a mapping as the wire re-encoding leaves it
encodedEntry(m, key) == walkOnValue(Obj(key :> m[key])).m[key]

\* C2: a tagged-union node {_T_: t, ...fields} with t outside the
\* ignore-set is fetched as {t: fields}; field completion followed by
\* wire re-encoding turns {t: fields} into a mapping whose _T_ is t, that
\* holds every entry of fields at its own level and has no key t.  This
\* holds for the value of a mapping field and for an element of a sequence.
TaggedUnionInverse ==
    fetchedAndDeployed =>
        \A node \in unionNodes :
            LET t == node[1].m[T].s
                fields == node[2].m[t].m
                full == node[3].m[t].m
            IN /\ t \notin TValuesToIgnore
               /\ DOMAIN node[2].m = {t}
               /\ DOMAIN fields \subseteq DOMAIN node[1].m \ {T}
               /\ \A key \in DOMAIN fields :
                      isString(node[1].m[key]) => fields[key] = node[1].m[key]
               /\ node[4].m[T] = Str(t)
               /\ t \notin DOMAIN node[4].m
               /\ DOMAIN fields \subseteq DOMAIN full
               /\ \A key \in DOMAIN full :
                      key \in DOMAIN node[4].m /\ node[4].m[key] = encodedEntry(full, key)

\* a deployed dataset with a tagged criteria and two tagged formulas
TaggedUnionInverseWitness ==
    /\ fetchedAndDeployed
    /\ Len(wireItems(rawRoot.m["formulas"])) = 2
    /\ encoded.m["criteria"].m[T] = Str("condition")
    /\ wireItems(encoded.m["formulas"])[1].m[T] = Str("fieldReference")
    /\ wireItems(encoded.m["formulas"])[2].m[T] = Str("dataSetFormula")

\* The formula nodes of the document (tag formula, in the ignore-set),
\* each as <<raw node, canonical node, node after wire re-encoding>>.
formulaNodes ==
    { << wireItems(rawRoot.m["formulas"])[i].m["formula"],
         fieldItems(canonical, "formulas")[i].m["dataSetFormula"].m["formula"],
         wireItems(encoded.m["formulas"])[i].m["formula"] >> :
      i \in { j \in 1..Len(wireItems(rawRoot.m["formulas"])) :
                wireItems(rawRoot.m["formulas"])[j].m[T] = Str("dataSetFormula") } }

\* C3: a node whose tag is in the ignore-set is fetched as its fields
\* without the discriminator and without nesting, and field completion
\* followed by wire re-encoding emits it with _T_ equal to the same tag and
\* with the same fields, for any number of fields, one field included.
IgnoredTagPassThrough ==
    fetchedAndDeployed =>
        /\ T \notin DOMAIN canonical.m
        /\ \A node \in formulaNodes :
               /\ DOMAIN node[2].m = {key \in DOMAIN node[1].m \ {T} : node[1].m[key] # nullObject}
               /\ \A key \in DOMAIN node[2].m : node[2].m[key] = node[1].m[key]
               /\ node[3].m[T] = node[1].m[T]
               /\ \A key \in DOMAIN node[2].m :
                      key \in DOMAIN node[3].m /\ node[3].m[key] = node[2].m[key]

\* C4: for a canonical field value v that is a sequence, a boolean or a
\* numeric-looking string, the sentinel checkTypeField makes of v is decoded
\* by fetchTransformFunc to v again, a boolean to a boolean; the sentinel
\* of true is {@_type: 'boolean', #text: 'true'}.
SentinelEncodeDecode ==
    (probe.op = "sentinel"
        /\ (isArray(probe.v) \/ isBoolean(probe.v)
               \/ (isString(probe.v) /\ isNumberStr(probe.v.s))))
        => /\ probe.back = probe.v
           /\ probe.v = Bool(TRUE)
                 => probe.wire = Obj((TYPE :> Str("boolean")) @@ (TEXT :> Str("true")))

RECURSIVE additive(_, _)
\* every key of every mapping of before is a key of the same mapping of
\* after, with the same value
additive(before, after) ==
    IF isPlainObject(before)
    THEN /\ isPlainObject(after)
         /\ \A key \in DOMAIN before.m :
                key \in DOMAIN after.m /\ additive(before.m[key], after.m[key])
    ELSE IF isArray(before)
    THEN /\ isArray(after)
         /\ Len(after.items) = Len(before.items)
         /\ \A i \in 1..Len(before.items) : additive(before.items[i], after.items[i])
    ELSE after = before

\* C5: field completion never removes a key of a mapping and never changes
\* the value of a key that the mapping held before the pass, a _T_ key
\* included; it only adds keys.
DefaultingIsAdditive ==
    (stage = "deployed" /\ kind = DATASET)
        => additive(definitionValuesOf(canonical), completed)

\* the field a placeholder was synthesized for has a plain object type:
\* no default value, not a list, not a primitive, not a tagged union
plainObjectTarget ==
    /\ probe.op = "empty"
    /\ LET field == datasetTypes[probe.type].fields[probe.key]
       IN /\ DEFAULT_VALUE \notin DOMAIN field.annotations
          /\ field.refType.kind = "object"
          /\ ~(/\ XML_TYPE \in DOMAIN datasetTypes[field.refType.name].annotations
               /\ IGNORE_T_VALUE \notin DOMAIN datasetTypes[field.refType.name].annotations)

\* the placeholders of the fields of the type of the field the last
\* placeholder was synthesized for
synthesizedChildren ==
    LET keyType == datasetTypes[probe.type].fields[probe.key].refType
        fields == datasetTypes[keyType.name].fields
    IN [innerKey \in {x \in DOMAIN fields : DO_NOT_ADD \notin DOMAIN fields[x].annotations} |->
          createEmptyObjectOfType(keyType, innerKey)]

\* C6: the placeholder of a plain object type is the null sentinel when
\* every synthesized child is a null sentinel or an empty-array sentinel,
\* and the mapping of the synthesized children otherwise.
NullCollapsePolicy ==
    plainObjectTarget =>
        probe.result =
            IF \A innerKey \in DOMAIN synthesizedChildren :
                   synthesizedChildren[innerKey] \in
                       {Obj(TYPE :> Str("null")), Obj(TYPE :> Str("array"))}
            THEN Obj(TYPE :> Str("null"))
            ELSE Obj(synthesizedChildren)

\* the placeholder of dataset_filter.operator keeps the default code
NullCollapsePolicyWitness ==
    /\ plainObjectTarget
    /\ probe.type = "dataset_filter"
    /\ probe.key = "operator"
    /\ probe.result = Obj("code" :> Str("AND"))

\* the string the raw document holds under description.translationScriptId
rawTranslationString == rawRoot.m["description"].m["translationScriptId"].s

\* a dataset whose raw description names a translation string, fetched
fetchedTranslation ==
    /\ stage \in {"fetched", "deployed"}
    /\ kind = DATASET
    /\ rawRoot # Undef
    /\ In("translationScriptId", rawRoot.m["description"])

\* the value the fetch left under description.translationScriptId
fetchedTranslationValue ==
    IF stage = "fetched" THEN instValue.m["description"].m["translationScriptId"]
    ELSE canonical.m["description"].m["translationScriptId"]

\* the translation collection named c that the fetch finds: the one of
\* the elements source, or else the first one of the fetched elements
foundCollection(c) ==
    IF c \in DOMAIN elementsSource THEN {elementsSource[c]}
    ELSE LET hits == {i \in 1..Len(elements) :
                         elements[i].elemID = <<"netsuite", "translationcollection", "instance", c>>}
         IN IF hits = {} THEN {}
            ELSE {elements[CHOOSE i \in hits : \A j \in hits : i <= j]}

\* the collection named c is found and its strings.string[k].scriptid is
\* defined
resolvable(c, k) ==
    \E instance \in foundCollection(c) :
        /\ k \in DOMAIN instance.value.m["strings"].m["string"].m
        /\ "scriptid" \in DOMAIN instance.value.m["strings"].m["string"].m[k].m

\* C7: the fetch replaces a string s that starts with the translation
\* prefix and splits on '.' into exactly two parts (c, k) by a Reference to
\* netsuite.translationcollection.instance.<c>.strings.string.<k>.scriptid
\* if a collection named c is found and its strings.string[k].scriptid is
\* defined; in every other case the result is the string s unchanged.
ReferenceWhenResolvable ==
    fetchedTranslation =>
        LET s == rawTranslationString
            parts == split(s)
        IN fetchedTranslationValue =
              IF /\ startsWithPrefix(s)
                 /\ Len(parts) = 2
                 /\ resolvable(parts[1], parts[2])
              THEN Ref(<<"netsuite", "translationcollection", "instance", parts[1],
                         "strings", "string", parts[2], "scriptid">>)
              ELSE Str(s)

\* a resolvable string became a Reference
ReferenceWhenResolvableWitness ==
    /\ fetchedTranslation
    /\ rawTranslationString = "custcollectiontranslations123.greeting"
    /\ elementsSource = EmptyMap
    /\ isReferenceExpression(fetchedTranslationValue)

\* a deployed dataset whose description held the Reference made of
\* custcollectiontranslations123.greeting
greetingDeployed ==
    /\ fetchedAndDeployed
    /\ In("translationScriptId", rawRoot.m["description"])
    /\ rawTranslationString = "custcollectiontranslations123.greeting"
    /\ canonical.m["description"].m["translationScriptId"] =
           Ref(<<"netsuite", "translationcollection", "instance", "custcollectiontranslations123",
                 "strings", "string", "greeting", "scriptid">>)

\* C8 (as stated): the deploy turns the Reference made of
\* custcollectiontranslations123.greeting, under translationScriptId, into
\* the string 123.greeting.
GreetingYieldsShortForm ==
    greetingDeployed
        => encoded.m["description"].m["translationScriptId"] = Str("123.greeting")

\* C8 (amended): the deploy turns that Reference into the string
\* custcollectiontranslations123.greeting, the collection id in full.
GreetingYieldsOriginal ==
    greetingDeployed
        => encoded.m["description"].m["translationScriptId"]
               = Str("custcollectiontranslations123.greeting")

GreetingYieldsOriginalWitness ==
    /\ greetingDeployed
    /\ encoded.m["description"].m["translationScriptId"].s
           = "custcollectiontranslations123.greeting"

\* a deployed dataset whose description held a Reference after the fetch
referenceDeployed ==
    /\ fetchedAndDeployed
    /\ In("translationScriptId", rawRoot.m["description"])
    /\ isReferenceExpression(canonical.m["description"].m["translationScriptId"])

\* C9 (as stated): the deploy replaces every Reference the fetch made of a
\* string s under translationScriptId by exactly s.
ReferenceReversed ==
    referenceDeployed
        => encoded.m["description"].m["translationScriptId"] = Str(rawTranslationString)

\* C9 (amended): the deploy replaces the Reference the fetch made of s by
\* exactly s when the collection id and the string id of s consist of word
\* characters only, and by the full name of the Reference otherwise.
ReferenceReversedForWordIds ==
    referenceDeployed
        => encoded.m["description"].m["translationScriptId"] =
              IF \A i \in 1..2 : isWord(split(rawTranslationString)[i])
              THEN Str(rawTranslationString)
              ELSE Str(getFullName(canonical.m["description"].m["translationScriptId"].elemID))

ReferenceReversedForWordIdsWitness ==
    /\ referenceDeployed
    /\ rawTranslationString = "custcollectiontranslations123.greeting"
    /\ encoded.m["description"].m["translationScriptId"] = Str(rawTranslationString)

\* the records the summary list holds for a sequence: one for each
\* element that is a mapping holding, under itemName, a mapping with a
\* scriptId, in the order of the elements
summaryOf(arr, itemName) ==
    LET nested == SelectSeq(arr, LAMBDA e :
                      /\ e.k = "obj"
                      /\ itemName \in DOMAIN e.m
                      /\ e.m[itemName].k = "obj"
                      /\ "scriptId" \in DOMAIN e.m[itemName].m)
    IN [i \in 1..Len(nested) |-> Obj("scriptid" :> nested[i].m[itemName].m["scriptId"])]

\* a deployed workbook whose pivots, charts and dataViews are sequences
workbookDeployed ==
    /\ stage = "deployed"
    /\ kind = WORKBOOK
    /\ \A arrName \in {"pivots", "charts", "dataViews"} :
           arrName \in DOMAIN canonical.m /\ canonical.m[arrName].k = "seq"

\* C10: the write transform of a workbook whose pivots field is a sequence
\* puts under pivots.pivot exactly one {scriptid: s} record for each element
\* that is a mapping holding a nested pivot object with a script id s, in
\* the order of the elements, whatever else the pivot holds; the same for
\* charts.chart from charts/chart and tables.table from dataViews/dataView.
SummaryArrays ==
    workbookDeployed =>
        /\ instValue.m["pivots"] =
               Obj("pivot" :> List(summaryOf(canonical.m["pivots"].items, "pivot")))
        /\ instValue.m["charts"] =
               Obj("chart" :> List(summaryOf(canonical.m["charts"].items, "chart")))
        /\ instValue.m["tables"] =
               Obj("table" :> List(summaryOf(canonical.m["dataViews"].items, "dataView")))

\* three nested pivots with script ids yield three records
SummaryArraysWitness ==
    /\ workbookDeployed
    /\ Len(canonical.m["pivots"].items) = 3
    /\ \A i \in 1..3 : In("pivot", canonical.m["pivots"].items[i])
    /\ canonical.m["pivots"].items[1] # canonical.m["pivots"].items[2]
    /\ Len(instValue.m["pivots"].m["pivot"].items) = 3

-----------------------------------------------------------------------------
(* Error handling *)

\* C11: no condition is fatal: for every canonical value of either kind the
\* write transform (returnToOriginalShape with the root discriminator step
\* and createOriginalArrays) returns a value and does not raise, also for a
\* workbook value without a Workbook field and for a pivots, charts or
\* dataViews field that is not a sequence.
NoConditionFatal == stage # "threw"

\* the instance handed to preDeploy holds a Reference under
\* description.translationScriptId, and preDeploy has run
describedByReference ==
    /\ stage \in {"deployed", "threw"}
    /\ kind = DATASET
    /\ isReferenceExpression(Get(Get(canonical, "description"), "translationScriptId"))

descriptionReferenceName ==
    getFullName(canonical.m["description"].m["translationScriptId"].elemID)

\* C12: when the value under translationScriptId is a Reference whose full
\* name does not match
\* netsuite.translationcollection.instance.<word>.strings.string.<word>.scriptid,
\* wire re-encoding replaces it by the full name as a plain string, and
\* the write transform does not raise.
MalformedReferenceFallsBack ==
    (describedByReference /\ ~checkReferenceToTranslation(descriptionReferenceName))
        => /\ stage = "deployed"
           /\ encoded.m["description"].m["translationScriptId"] = Str(descriptionReferenceName)

\* a Reference to the collection itself, of four name parts, is emitted as
\* its full name
MalformedReferenceFallsBackWitness ==
    /\ describedByReference
    /\ Len(canonical.m["description"].m["translationScriptId"].elemID) = 4
    /\ encoded.m["description"].m["translationScriptId"]
         = Str("netsuite.translationcollection.instance.custcollectiontranslations123")

\* the schema node is an object type declared as a tagged union
declaredUnion(field) ==
    /\ getType(field).kind = "object"
    /\ "XML_TYPE" \in DOMAIN ObjectTypes[getType(field).name].annotations

\* the mapping without its discriminator, the tag under the key xmlType
exposed(value) ==
    Obj([key \in (DOMAIN value.m \ {"_T_"}) \cup {"xmlType"} |->
            IF key = "xmlType" THEN value.m["_T_"] ELSE value.m[key]])

\* C13: when a raw mapping carries _T_ but the schema node at its path is
\* not an object type declared as a tagged union (also when the type of
\* the field cannot be determined), the fetch normalizer returns the
\* mapping with _T_ removed, the tag under the key xmlType and every other
\* field unchanged; the fetch does not fail on it.
UnexpectedTagExposed ==
    /\ (probe.op = "tagged" /\ ~declaredUnion(probe.field))
          => probe.result = exposed(probe.value)
    /\ (stage = "fetched" /\ rawRoot # Undef /\ In("_T_", rawRoot.m["baseRecord"]))
          => instValue.m["baseRecord"] = exposed(rawRoot.m["baseRecord"])

\* the tag of a mapping whose field type cannot be determined is exposed
UnexpectedTagExposedWitness ==
    /\ probe.op = "tagged"
    /\ probe.field = NoField
    /\ probe.value.m["_T_"] = Str("record")
    /\ probe.result.m["xmlType"] = Str("record")
    /\ "_T_" \notin DOMAIN probe.result.m

\* the fetch of a document whose baseRecord carries a discriminator
UnexpectedTagFetched ==
    /\ stage = "fetched"
    /\ rawRoot # Undef
    /\ In("_T_", rawRoot.m["baseRecord"])
    /\ instValue.m["baseRecord"].m["xmlType"] = Str("record")

-----------------------------------------------------------------------------
(* The result of the write transform *)

\* the value of a key of the instance before preDeploy, undefined when absent
before(key) == IF key \in DOMAIN canonical.m THEN canonical.m[key] ELSE [k |-> "undef"]

\* C14: the value the write transform produces has exactly the keys name,
\* scriptid, dependencies and definition for a dataset, and those four and
\* pivots, charts and tables for a workbook; name, scriptid and dependencies
\* are the instance's values before the transform, and no other key of the
\* canonical value is left at the top level.
ResultShape ==
    stage = "deployed" =>
        /\ DOMAIN instValue.m =
              {"name", "scriptid", "dependencies", "definition"}
              \cup (IF kind = "workbook" THEN {"pivots", "charts", "tables"} ELSE {})
        /\ \A key \in {"name", "scriptid", "dependencies"} : instValue.m[key] = before(key)

\* a deployed dataset whose canonical value held baseRecord and criteria,
\* with its dependencies
ResultShapeWitness ==
    /\ stage = "deployed"
    /\ kind = "dataset"
    /\ {"baseRecord", "criteria", "dependencies"} \subseteq DOMAIN canonical.m
    /\ "baseRecord" \notin DOMAIN instValue.m
    /\ instValue.m["dependencies"] = canonical.m["dependencies"]

\* a deployed workbook: Workbook and dataViews are gone, tables is there
ResultShapeWorkbook ==
    /\ stage = "deployed"
    /\ kind = "workbook"
    /\ {"Workbook", "dataViews"} \subseteq DOMAIN canonical.m
    /\ "tables" \in DOMAIN instValue.m
    /\ "dataViews" \notin DOMAIN instValue.m

-----------------------------------------------------------------------------
(* Invariants of the canonical value *)

\* some mapping of the tree holds the sentinel discriminator key
RECURSIVE hasSentinelKey(_)
hasSentinelKey(v) ==
    CASE v.k = "obj" -> \/ "@_type" \in DOMAIN v.m
                        \/ \E key \in DOMAIN v.m : hasSentinelKey(v.m[key])
      [] v.k = "seq" -> \E i \in 1..Len(v.items) : hasSentinelKey(v.items[i])
      [] OTHER -> FALSE

\* C15: after the fetch of any raw document no mapping of the canonical
\* tree holds the key @_type: every sentinel wrapper of the raw document,
\* whatever its discriminator value, has been replaced by a plain value.
NoSentinelAfterFetch == stage = "fetched" => ~hasSentinelKey(instValue)

-----------------------------------------------------------------------------
(* The schema *)

\* C16: neither transform writes to the schema: after field completion and
\* wire re-encoding of any canonical tree every schema node and every
\* annotation value of the schema used for the call is as it was before
\* the call, the configured default values among them (the default of the
\* dataset criteria is {_T_: 'condition', condition: {}}).  The default of
\* criteria is the one annotation value of the schema that is an object;
\* the other defaults are strings.
SchemaNotWritten ==
    schemaDefault = [k |-> "obj", m |-> ("_T_" :> [k |-> "str", s |-> "condition"])
                                        @@ ("condition" :> [k |-> "obj", m |-> <<>>])]

-----------------------------------------------------------------------------
(* Field completion *)

\* the type of the field key of the schema node t, none when t declares
\* no such field
nodeOf(t, key) ==
    IF t.kind = "object" /\ key \in DOMAIN ObjectTypes[t.name].fields
    THEN ObjectTypes[t.name].fields[key].refType
    ELSE NoType

\* the fields the object node t declares without the mark DO_NOT_ADD
fieldsToAdd(t) ==
    { key \in DOMAIN ObjectTypes[t.name].fields :
        ~("DO_NOT_ADD" \in DOMAIN ObjectTypes[t.name].fields[key].annotations
          /\ ObjectTypes[t.name].fields[key].annotations["DO_NOT_ADD"] = [k |-> "bool", b |-> TRUE]) }

\* every mapping at or below value, found at the schema node t, that is at
\* an object node and is not a sentinel wrapper holds every field to add
RECURSIVE completeAt(_, _)
completeAt(value, t) ==
    CASE value.k = "obj" ->
            IF t.kind = "list" THEN completeAt(value, t.inner)
            ELSE /\ (t.kind = "object" /\ "@_type" \notin DOMAIN value.m)
                       => fieldsToAdd(t) \subseteq DOMAIN value.m
                 /\ \A key \in DOMAIN value.m : completeAt(value.m[key], nodeOf(t, key))
      [] value.k = "seq" ->
            \A i \in 1..Len(value.items) :
                completeAt(value.items[i], IF t.kind = "list" THEN t.inner ELSE t)
      [] OTHER -> TRUE

\* C19: after addMissingFields every mapping of the tree that is at a
\* schema object node and is not a sentinel wrapper holds every field the
\* node declares that is not marked DO_NOT_ADD, at tagged unions as at
\* plain object nodes, whatever the number of fields the mapping had.
FieldCompletionComplete ==
    (stage \in {"deployed", "threw"} /\ kind = "dataset")
        => completeAt(completed, ParsedDatasetType)

-----------------------------------------------------------------------------
(* The order of the reference lookup *)

\* the translation collection named c, looked up first among the in-flight
\* elements of the fetch and only if absent there in the elements source
foundInMemoryFirst(c) ==
    LET hits == {i \in 1..Len(elements) :
                    elements[i].elemID = <<"netsuite", "translationcollection", "instance", c>>}
    IN IF hits # {} THEN {elements[CHOOSE i \in hits : \A j \in hits : i <= j]}
       ELSE IF c \in DOMAIN elementsSource THEN {elementsSource[c]}
       ELSE {}

\* C20: the fetch looks the target of a translation reference up first in
\* the in-flight elements and only if it is absent there in the elements
\* source: when both hold an instance of the target name with different
\* contents, the in-flight instance alone decides whether a Reference is
\* made.
LookupInMemoryFirst ==
    (/\ fetchedTranslation
     /\ startsWithPrefix(rawTranslationString)
     /\ Len(split(rawTranslationString)) = 2)
        => (isReferenceExpression(fetchedTranslationValue)
              <=> \E instance \in foundInMemoryFirst(split(rawTranslationString)[1]) :
                     LET strings == instance.value.m["strings"].m["string"].m
                         k == split(rawTranslationString)[2]
                     IN k \in DOMAIN strings /\ "scriptid" \in DOMAIN strings[k].m)

-----------------------------------------------------------------------------
(* onFetch over the elements of a fetch *)

\* the instances of the analytics type in work, as onFetch was handed them
originals ==
    SelectSeq(initialElements,
              LAMBDA e : e.k = "inst" /\ e.elemID[2] = (IF phase = "workbooks" THEN "workbook"
                                                        ELSE "dataset"))

\* the value the transform of an instance yields when it is run alone
\* against the elements source and the elements in flight
transformedAlone(instance) ==
    createAnalyticsInstances(instance.value, instance.elemID[2], instance.elemID[4],
                             elementsSource, inFlight,
                             [kind |-> "object", name |-> instance.elemID[2]])

\* C17: concurrent transformation needs no coordination: while onFetch
\* transforms several instances concurrently, in every interleaving of the
\* steps of the calls no call writes to the elements in flight or to the
\* value of another instance, and each call ends with the canonical value
\* the transform of its instance alone yields.  (No action writes to the
\* elements source.)
ConcurrentFetchIndependent ==
    phase \in {"workbooks", "datasets"} =>
        /\ elements = inFlight
        /\ Len(tasks) = Len(originals)
        /\ \A i \in DOMAIN tasks :
              /\ tasks[i].instance.elemID = originals[i].elemID
              /\ tasks[i].instance.value =
                    IF tasks[i].pc = "done" THEN transformedAlone(originals[i])
                    ELSE originals[i].value

\* two datasets in flight, the second done before the first has begun its
\* transform, the first with a Reference to make
ConcurrentFetchIndependentWitness ==
    /\ phase = "datasets"
    /\ Len(tasks) = 2
    /\ tasks[1].pc = "parsed"
    /\ tasks[2].pc = "done"
    /\ tasks[2].instance.value # originals[2].value
    /\ \E i \in DOMAIN elements : elements[i].elemID[2] = "translationcollection"

\* both datasets done, one of them with a Reference under its description
ConcurrentFetchReference ==
    /\ phase = "datasets"
    /\ Len(tasks) = 2
    /\ \A i \in DOMAIN tasks : tasks[i].pc = "done"
    /\ \E i \in DOMAIN tasks :
          /\ "description" \in DOMAIN tasks[i].instance.value.m
          /\ tasks[i].instance.value.m["description"].m["translationScriptId"].k = "ref"

\* the elements of a list
elementsOf(list) == {list[i] : i \in DOMAIN list}

\* an instance of one of the two analytics types
isAnalyticsInstance(e) == e.k = "inst" /\ e.elemID[2] \in {"workbook", "dataset"}

\* an object type whose name is, or starts with, the name of one of the
\* two analytics types
isAnalyticsTypeName(e) ==
    e.k = "type" /\ (startsWith(e.elemID[2], "workbook") \/ startsWith(e.elemID[2], "dataset"))

\* the names of the parsed types and of their inner types
parsedTypeNames ==
    {"workbook", "dataset"}
    \cup {workbookInnerTypes[i] : i \in DOMAIN workbookInnerTypes}
    \cup {datasetInnerTypes[i] : i \in DOMAIN datasetInnerTypes}

\* C18: after onFetch every instance whose type name was workbook or
\* dataset is among the elements exactly once, under the same name and
\* typed by the parsed type built by the filter; the parsed types and
\* their inner types are among the elements; no other object type whose
\* name is or starts with workbook or dataset is left; every other element
\* of the list is kept as it was.
FetchRegistersTypes ==
    phase = "done" =>
        /\ \A e \in elementsOf(initialElements) :
              isAnalyticsInstance(e) =>
                  /\ Cardinality({i \in DOMAIN elements :
                                     elements[i].k = "inst" /\ elements[i].elemID = e.elemID}) = 1
                  /\ \A i \in DOMAIN elements :
                        (elements[i].k = "inst" /\ elements[i].elemID = e.elemID)
                            => elements[i].type = [ k |-> "type",
                                                    elemID |-> <<"netsuite", e.elemID[2]>>,
                                                    origin |-> "parsed" ]
        /\ \A name \in parsedTypeNames :
              [k |-> "type", elemID |-> <<"netsuite", name>>, origin |-> "parsed"]
                  \in elementsOf(elements)
        /\ \A e \in elementsOf(elements) : isAnalyticsTypeName(e) => e.origin = "parsed"
        /\ \A e \in elementsOf(initialElements) :
              (~isAnalyticsInstance(e) /\ ~isAnalyticsTypeName(e))
                  => Cardinality({i \in DOMAIN elements : elements[i] = e}) = 1

\* onFetch has run over object types of the adapter, of the names of the
\* analytics types and of another name, a translation collection, a
\* workbook and a dataset
FetchRegistersTypesWitness ==
    /\ phase = "done"
    /\ \E e \in elementsOf(initialElements) : e.k = "type" /\ e.elemID[2] = "dataset_legacy"
    /\ \E e \in elementsOf(initialElements) : e.k = "type" /\ e.elemID[2] = "customrecordtype"
    /\ \E e \in elementsOf(initialElements) : e.k = "inst" /\ e.elemID[2] = "workbook"
    /\ \E e \in elementsOf(initialElements) : e.k = "inst" /\ e.elemID[2] = "dataset"
    /\ \E e \in elementsOf(elements) : e.k = "type" /\ e.elemID[2] = "customrecordtype"

-----------------------------------------------------------------------------
(* Sentinel decoding *)

\* the boolean a text payload denotes
denoted(t) ==
    CASE t = [k |-> "bool", b |-> TRUE] \/ t = [k |-> "str", s |-> "true"] -> [k |-> "bool", b |-> TRUE]
      [] t = [k |-> "bool", b |-> FALSE] \/ t = [k |-> "str", s |-> "false"] -> [k |-> "bool", b |-> FALSE]
      [] OTHER -> [k |-> "undef"]

\* the string form of a scalar payload
stringForm(t) ==
    CASE t.k = "str" -> t
      [] t.k = "num" -> [k |-> "str", s |-> t.n]
      [] t.k = "bool" -> [k |-> "str", s |-> IF t.b THEN "true" ELSE "false"]

\* C21: the fetch normalizer turns {@_type: 'boolean', #text: t} into the
\* boolean t denotes (the text "true" into the boolean true, the text
\* "false" into the boolean false), and {@_type: 'string', #text: t} into
\* the string form of t, whatever primitive type t has.
ScalarSentinelCast ==
    probe.op = "decode" =>
        /\ probe.value.m["@_type"] = [k |-> "str", s |-> "boolean"]
              => probe.result = denoted(probe.value.m["#text"])
        /\ probe.value.m["@_type"] = [k |-> "str", s |-> "string"]
              => probe.result = stringForm(probe.value.m["#text"])

\* the part of C21 on the string sentinel, and on a boolean sentinel whose
\* text the parser has typed as a boolean
ScalarSentinelTypedText ==
    probe.op = "decode" =>
        /\ (probe.value.m["@_type"] = [k |-> "str", s |-> "boolean"]
               /\ probe.value.m["#text"].k = "bool")
              => probe.result = probe.value.m["#text"]
        /\ probe.value.m["@_type"] = [k |-> "str", s |-> "string"]
              => probe.result = stringForm(probe.value.m["#text"])

\* C22: the fetch normalizer turns a mapping with @_type = 'array' into the
\* empty sequence when _ITEM_ is absent, into the payload itself when
\* _ITEM_ is a sequence, and into the singleton sequence of the payload
\* when _ITEM_ is any other value; the result is a sequence, never a
\* sentinel.
ArraySentinelDecoding ==
    (probe.op = "decode" /\ probe.value.m["@_type"] = [k |-> "str", s |-> "array"])
        => /\ probe.result.k = "seq"
           /\ probe.result =
                 IF "_ITEM_" \notin DOMAIN probe.value.m THEN [k |-> "seq", items |-> <<>>]
                 ELSE IF probe.value.m["_ITEM_"].k = "seq" THEN probe.value.m["_ITEM_"]
                 ELSE [k |-> "seq", items |-> <<probe.value.m["_ITEM_"]>>]

\* a payload of one mapping became the sequence of that mapping
ArraySentinelDecodingWitness ==
    /\ probe.op = "decode"
    /\ probe.value.m["@_type"] = [k |-> "str", s |-> "array"]
    /\ "_ITEM_" \in DOMAIN probe.value.m
    /\ probe.value.m["_ITEM_"].k = "obj"
    /\ probe.result = [k |-> "seq", items |-> <<probe.value.m["_ITEM_"]>>]

-----------------------------------------------------------------------------
(* Placeholder synthesis *)

\* the placeholder result of the field key of the object type typeName
\* is chosen by default first, then by shape, at every level
RECURSIVE followsPlaceholderRule(_, _, _)
followsPlaceholderRule(result, typeName, key) ==
    LET field == ObjectTypes[typeName].fields[key]
        keyType == field.refType
    IN IF "DEFAULT_VALUE" \in DOMAIN field.annotations
       THEN result = field.annotations["DEFAULT_VALUE"]
       ELSE IF keyType.kind = "list"
       THEN result = [k |-> "obj", m |-> ("@_type" :> [k |-> "str", s |-> "array"])]
       ELSE IF \/ keyType.kind = "primitive"
               \/ /\ "XML_TYPE" \in DOMAIN ObjectTypes[keyType.name].annotations
                  /\ "IGNORE_T_VALUE" \notin DOMAIN ObjectTypes[keyType.name].annotations
       THEN result = [k |-> "obj", m |-> ("@_type" :> [k |-> "str", s |-> "null"])]
       ELSE \/ result = [k |-> "obj", m |-> ("@_type" :> [k |-> "str", s |-> "null"])]
            \/ /\ result.k = "obj"
               /\ DOMAIN result.m =
                     { innerKey \in DOMAIN ObjectTypes[keyType.name].fields :
                         "DO_NOT_ADD" \notin DOMAIN ObjectTypes[keyType.name].fields[innerKey].annotations }
               /\ \A innerKey \in DOMAIN result.m :
                     followsPlaceholderRule(result.m[innerKey], keyType.name, innerKey)

\* the fields field completion has added to the root of a dataset (the
\* discriminator is not a field)
addedAtRoot ==
    DOMAIN completed.m
        \ ((DOMAIN canonical.m \ {"scriptid", "name", "definition", "dependencies"}) \cup {"_T_"})

\* C23: the placeholder of a missing field is chosen by default first, then
\* by shape: a field with a configured default gets the default whatever
\* its type; otherwise a list type gets the empty-array sentinel, and a
\* primitive type or a tagged union without the ignore-discriminator mark
\* gets the null sentinel; the rule holds at every level of a recursively
\* built placeholder, and no field marked DO_NOT_ADD is synthesized.  At
\* the root of a completed dataset every added field holds its placeholder
\* (a default that is a mapping holds at least the default's entries).
PlaceholderByDefaultThenShape ==
    /\ probe.op = "empty" => followsPlaceholderRule(probe.result, probe.type, probe.key)
    /\ (stage \in {"deployed", "threw"} /\ kind = "dataset") =>
          \A key \in addedAtRoot :
             /\ key \in DOMAIN ObjectTypes["dataset"].fields
             /\ "DO_NOT_ADD" \notin DOMAIN ObjectTypes["dataset"].fields[key].annotations
             /\ IF "DEFAULT_VALUE" \in DOMAIN ObjectTypes["dataset"].fields[key].annotations
                THEN additive(ObjectTypes["dataset"].fields[key].annotations["DEFAULT_VALUE"],
                              completed.m[key])
                ELSE followsPlaceholderRule(completed.m[key], "dataset", key)

\* the default of a string field inside a recursively built placeholder:
\* dataset_condition.operator is synthesized as {code: 'AND'}
PlaceholderByDefaultThenShapeWitness ==
    /\ probe.op = "empty"
    /\ probe.type = "dataset_condition"
    /\ probe.key = "operator"
    /\ probe.result.k = "obj"
    /\ probe.result.m["code"] = [k |-> "str", s |-> "AND"]

\* a dataset without criteria was completed with the default of criteria
PlaceholderDefaultAtRoot ==
    /\ stage = "deployed"
    /\ kind = "dataset"
    /\ "criteria" \in addedAtRoot
    /\ completed.m["criteria"].m["_T_"] = [k |-> "str", s |-> "condition"]

-----------------------------------------------------------------------------
(* Wire re-encoding *)

\* a value the serializer would not print with its type: a sequence, a
\* boolean, a string that parses as a number
bare(v) == v.k = "seq" \/ v.k = "bool" \/ (v.k = "str" /\ isNumberStr(v.s))

\* no field value of a mapping that is not a sentinel and no element of a
\* sequence is bare, at every depth; the payload of a sentinel is the
\* value itself, not a second sentinel
RECURSIVE wrappedOnce(_)
wrappedOnce(v) ==
    CASE v.k = "obj" ->
            /\ "@_type" \notin DOMAIN v.m => \A key \in DOMAIN v.m : ~bare(v.m[key])
            /\ ("@_type" \in DOMAIN v.m /\ "_ITEM_" \in DOMAIN v.m) => v.m["_ITEM_"].k = "seq"
            /\ ("@_type" \in DOMAIN v.m /\ "#text" \in DOMAIN v.m) => v.m["#text"].k \in {"str", "num"}
            /\ \A key \in DOMAIN v.m : wrappedOnce(v.m[key])
      [] v.k = "seq" ->
            \A i \in 1..Len(v.items) : ~bare(v.items[i]) /\ wrappedOnce(v.items[i])
      [] OTHER -> TRUE

\* the value a of the wire tree stands for the value b of the completed
\* tree: the sentinel of b when b is bare, b itself when b is another
\* scalar; for a mapping, the values under the keys it has kept
RECURSIVE encodesTo(_, _)
encodesTo(b, a) ==
    CASE b.k = "seq" ->
            /\ a.k = "obj"
            /\ DOMAIN a.m = {"@_type", "_ITEM_"}
            /\ a.m["@_type"] = [k |-> "str", s |-> "array"]
            /\ a.m["_ITEM_"].k = "seq"
            /\ Len(a.m["_ITEM_"].items) = Len(b.items)
            /\ \A i \in 1..Len(b.items) : encodesTo(b.items[i], a.m["_ITEM_"].items[i])
      [] b.k = "bool" ->
            a = [k |-> "obj", m |-> ("@_type" :> [k |-> "str", s |-> "boolean"])
                                    @@ ("#text" :> [k |-> "str", s |-> IF b.b THEN "true" ELSE "false"])]
      [] b.k = "str" ->
            IF isNumberStr(b.s)
            THEN a = [k |-> "obj", m |-> ("@_type" :> [k |-> "str", s |-> "string"]) @@ ("#text" :> b)]
            ELSE a = b
      [] b.k = "num" -> a = b
      [] b.k = "obj" ->
            /\ a.k = "obj"
            /\ \A key \in DOMAIN b.m \cap DOMAIN a.m :
                  "@_type" \notin DOMAIN b.m => encodesTo(b.m[key], a.m[key])
      [] OTHER -> TRUE

\* C24: after matchToXmlObjectForm on a completed tree, at every depth, in
\* mappings and in sequences, fields inserted by field completion among
\* them, no field value and no sequence element is a bare sequence, a bare
\* boolean or a bare string that parses as a number: each is one sentinel
\* of discriminator array, boolean or string, every other scalar is
\* unchanged, and the payload of a sentinel is not wrapped a second time.
WrappedExactlyOnce ==
    stage \in {"deployed", "threw"} => wrappedOnce(encoded) /\ encodesTo(completed, encoded)

\* a deployed dataset with a boolean two levels down, a numeric-looking
\* string and a sequence inserted by field completion
WrappedExactlyOnceWitness ==
    /\ stage = "deployed"
    /\ kind = "dataset"
    /\ "version" \in DOMAIN completed.m
    /\ completed.m["version"] = [k |-> "str", s |-> "0.1"]
    /\ encoded.m["version"].m["#text"] = [k |-> "str", s |-> "0.1"]
    /\ "criteria" \in DOMAIN canonical.m
    /\ "filter" \in DOMAIN canonical.m["criteria"].m
    /\ canonical.m["criteria"].m["filter"].m["caseSensitive"] = [k |-> "bool", b |-> TRUE]
    /\ encoded.m["criteria"].m["caseSensitive"].m["#text"] = [k |-> "str", s |-> "true"]
    /\ "columns" \notin DOMAIN canonical.m
    /\ encoded.m["columns"] = [k |-> "obj", m |-> ("@_type" :> [k |-> "str", s |-> "array"])]

\* a deployed workbook whose pivots, a sequence of three, is one array
\* sentinel
WrappedSequenceOfThree ==
    /\ stage = "deployed"
    /\ kind = "workbook"
    /\ "pivots" \in DOMAIN completed.m
    /\ completed.m["pivots"].k = "seq"
    /\ Len(completed.m["pivots"].items) = 3
    /\ encoded.m["pivots"].m["_ITEM_"] = completed.m["pivots"]

-----------------------------------------------------------------------------
(* The root of the definition tree *)

\* the definition tree handed to the serializer
serialized == instValue.m["definition"]

\* C25 (as stated): after both sub-passes the root object of the definition
\* tree handed to the serializer carries _T_ = 'workbook' for the workbook
\* kind and _T_ = 'dataSet' for the dataset kind.
TopLevelDiscriminator ==
    stage = "deployed" =>
        /\ "_T_" \in DOMAIN serialized.m
        /\ serialized.m["_T_"] = [k |-> "str", s |-> IF kind = "workbook" THEN "workbook" ELSE "dataSet"]

\* C25 (amended): for the dataset kind the root object of the definition
\* tree carries _T_ = 'dataSet', whatever the earlier passes left under _T_
\* at the root; for the workbook kind the discriminator _T_ = 'workbook' is
\* put on the mapping under the root's Workbook field, and the root itself
\* is given no discriminator.
TopLevelDiscriminatorPerKind ==
    stage = "deployed" =>
        IF kind = "workbook"
        THEN /\ "_T_" \in DOMAIN serialized.m["Workbook"].m
             /\ serialized.m["Workbook"].m["_T_"] = [k |-> "str", s |-> "workbook"]
             /\ "_T_" \in DOMAIN serialized.m => "_T_" \in DOMAIN encoded.m
        ELSE /\ "_T_" \in DOMAIN serialized.m
             /\ serialized.m["_T_"] = [k |-> "str", s |-> "dataSet"]

\* a deployed workbook: the discriminator is on Workbook, not on the root
TopLevelDiscriminatorPerKindWitness ==
    /\ stage = "deployed"
    /\ kind = "workbook"
    /\ serialized.m["Workbook"].m["_T_"] = [k |-> "str", s |-> "workbook"]
    /\ "_T_" \notin DOMAIN serialized.m

\* a deployed dataset whose root was left with another discriminator by
\* field completion
DiscriminatorOverwritten ==
    /\ stage = "deployed"
    /\ kind = "dataset"
    /\ "_T_" \in DOMAIN encoded.m
    /\ encoded.m["_T_"] = [k |-> "str", s |-> "baseRecord"]
    /\ serialized.m["_T_"] = [k |-> "str", s |-> "dataSet"]

\* the name parts of a Reference are those of a translation string:
\* netsuite.translationcollection.instance.<word>.strings.string.<word>.scriptid
translationPath(elemID) ==
    /\ Len(elemID) = 8
    /\ <<elemID[1], elemID[2], elemID[3]>> = <<"netsuite", "translationcollection", "instance">>
    /\ <<elemID[5], elemID[6], elemID[8]>> = <<"strings", "string", "scriptid">>
    /\ isWord(elemID[4])
    /\ isWord(elemID[7])

\* the stored name holds, under #text, a Reference to a translation string
namedByTranslation ==
    /\ canonical.m["name"].k = "obj"
    /\ "#text" \in DOMAIN canonical.m["name"].m
    /\ canonical.m["name"].m["#text"].k = "ref"
    /\ translationPath(canonical.m["name"].m["#text"].elemID)

\* C26: in the definition tree handed to the serializer the root name is
\* the instance's name exactly as stored, neither completed nor re-encoded,
\* and a name the passes produced is overwritten; except when name['#text']
\* is a Reference whose full name matches the translation path pattern:
\* then the root name is {translationScriptId: '<collectionId>.<stringId>'}.
\* The name of the returned result is always the stored name.
NameReinstated ==
    stage = "deployed" =>
        /\ instValue.m["name"] = canonical.m["name"]
        /\ "name" \in DOMAIN serialized.m
        /\ serialized.m["name"] =
              IF namedByTranslation
              THEN [k |-> "obj",
                    m |-> ("translationScriptId" :>
                             [k |-> "str",
                              s |-> concatDot(canonical.m["name"].m["#text"].elemID[4],
                                              canonical.m["name"].m["#text"].elemID[7])])]
              ELSE canonical.m["name"]

\* a dataset named by a Reference to the greeting: the tree holds the short
\* form, the result the Reference; field completion had put a null
\* sentinel under name
NameReinstatedWitness ==
    /\ stage = "deployed"
    /\ kind = "dataset"
    /\ namedByTranslation
    /\ completed.m["name"] = [k |-> "obj", m |-> ("@_type" :> [k |-> "str", s |-> "null"])]
    /\ serialized.m["name"].m["translationScriptId"]
          = [k |-> "str", s |-> "custcollectiontranslations123.greeting"]
    /\ instValue.m["name"].m["#text"].k = "ref"

\* a numeric-looking name is handed to the serializer bare, and a
\* Reference that does not match the pattern as the Reference
NameReinstatedBare ==
    /\ stage = "deployed"
    /\ kind = "dataset"
    /\ \/ serialized.m["name"] = [k |-> "str", s |-> "5"]
       \/ /\ serialized.m["name"].k = "obj"
          /\ "#text" \in DOMAIN serialized.m["name"].m
          /\ Len(serialized.m["name"].m["#text"].elemID) = 4

-----------------------------------------------------------------------------
(* The parseWorkbook filter *)

\* no translation collection named c is among the elements of the fetch
\* or in the elements source
noSiblingDocument(c) ==
    /\ c \notin DOMAIN elementsSource
    /\ \A i \in DOMAIN elements :
          elements[i].elemID # <<"netsuite", "translationcollection", "instance", c>>

\* C27: the fetch normalizer of the parseWorkbook filter keeps an
\* unresolvable reference as a string: a translation-prefixed string
\* <collectionId>.<stringId> for which no sibling translation document
\* exists normalizes to the string unchanged, not to a Reference.
WorkbookUnresolvableKept ==
    (/\ probe.op = "workbook"
     /\ probe.value.k = "str"
     /\ startsWithPrefix(probe.value.s)
     /\ Len(split(probe.value.s)) = 2
     /\ noSiblingDocument(split(probe.value.s)[1]))
        => probe.result = probe.value

\* every other string of the model, and a number, come back from that
\* normalizer as they were or as their string form
WorkbookOtherScalarsKept ==
    (/\ probe.op = "workbook"
     /\ probe.value.k \in {"str", "num"}
     /\ ~(probe.value.k = "str" /\ startsWithPrefix(probe.value.s)
            /\ Len(split(probe.value.s)) = 2))
        => probe.result \in {probe.value, stringForm(probe.value)}

-----------------------------------------------------------------------------
(* References in the definition tree *)

\* some value of the tree is a Reference
RECURSIVE hasReference(_)
hasReference(v) ==
    CASE v.k = "ref" -> TRUE
      [] v.k = "obj" -> \E key \in DOMAIN v.m : hasReference(v.m[key])
      [] v.k = "seq" -> \E i \in 1..Len(v.items) : hasReference(v.items[i])
      [] OTHER -> FALSE

\* some value of the tree under the key translationScriptId is a Reference
RECURSIVE hasReservedReference(_)
hasReservedReference(v) ==
    CASE v.k = "obj" ->
            \E key \in DOMAIN v.m :
                \/ key = "translationScriptId" /\ v.m[key].k = "ref"
                \/ hasReservedReference(v.m[key])
      [] v.k = "seq" -> \E i \in 1..Len(v.items) : hasReservedReference(v.items[i])
      [] OTHER -> FALSE

\* C28: no Reference reaches the serializer: for every canonical tree the
\* parseAnalytics fetch produced, after wire re-encoding no value of the
\* definition tree is a Reference; every Reference the fetch made, under
\* any field name and as an element of a sequence, is now a string.
NoReferenceSerialized ==
    (stage = "deployed" /\ rawRoot # Undef) => ~hasReference(encoded)

\* the part of C28 on the reserved key: no Reference is left under
\* translationScriptId
NoReservedReferenceSerialized ==
    (stage = "deployed" /\ rawRoot # Undef) => ~hasReservedReference(encoded)

\* a fetched dataset with a Reference under translationScriptId, deployed
ReservedReferenceDeployed ==
    /\ stage = "deployed"
    /\ rawRoot # Undef
    /\ hasReservedReference(canonical)
    /\ ~hasReference(encoded)

-----------------------------------------------------------------------------
(* Termination of placeholder synthesis *)

\* the field key of the object type typeName is one at which synthesis
\* stops without descending: a configured default, a list type, a
\* primitive, a tagged union without the ignore-discriminator mark
stopsAt(typeName, key) ==
    LET field == ObjectTypes[typeName].fields[key]
    IN \/ "DEFAULT_VALUE" \in DOMAIN field.annotations
       \/ field.refType.kind \in {"list", "primitive"}
       \/ /\ "XML_TYPE" \in DOMAIN ObjectTypes[field.refType.name].annotations
          /\ "IGNORE_T_VALUE" \notin DOMAIN ObjectTypes[field.refType.name].annotations

\* C29: createEmptyObjectOfType terminates for every field of every object
\* type of the dataset schema, mutually recursive as it is: a chain of
\* nested calls never goes deeper than MaxNesting levels, no call is made
\* for a field at which synthesis stops or for a field marked DO_NOT_ADD,
\* and no chain comes back to the field it started from.
SynthesisTerminates ==
    probe.op = "calls" =>
        /\ probe.depth <= MaxNesting
        /\ probe.depth > 0 => <<probe.type, probe.key>> \notin probe.pending
        /\ \A call \in probe.pending :
              probe.depth > 0 =>
                  "DO_NOT_ADD" \notin DOMAIN ObjectTypes[call[1]].fields[call[2]].annotations
        /\ (probe.depth = 0 /\ stopsAt(probe.type, probe.key))
              => nestedCalls([kind |-> "object", name |-> probe.type], probe.key) = {}

\* the synthesis of dataset_fieldOrFormula.fieldReference has gone through
\* joinTrail and baseRecord and has ended at the fourth level
SynthesisTerminatesWitness ==
    /\ probe.op = "calls"
    /\ probe.type = "dataset_fieldOrFormula"
    /\ probe.key = "fieldReference"
    /\ probe.depth = 4
    /\ probe.pending = {}

\* the synthesis of dataset_formula.fields, on the cycle formula /
\* fieldOrFormula, has stopped at the list type: no nested call
SynthesisStopsOnCycle ==
    /\ probe.op = "calls"
    /\ probe.type = "dataset_formula"
    /\ probe.key = "fields"
    /\ probe.depth = 1
    /\ probe.pending = {}

\* the result of createEmptyObjectOfType, when it is a mapping, holds one
\* entry for each nested call
NestedCallsBuildResult ==
    (probe.op = "empty" /\ probe.result.k = "obj" /\ "@_type" \notin DOMAIN probe.result.m
        /\ "DEFAULT_VALUE" \notin DOMAIN ObjectTypes[probe.type].fields[probe.key].annotations)
        => DOMAIN probe.result.m =
              {call[2] : call \in nestedCalls([kind |-> "object", name |-> probe.type], probe.key)}

-----------------------------------------------------------------------------
(* The workbook change validator *)

\* the element a change is about has one of the three keys in its value
hasUnsupportedKey(change) ==
    LET data == IF change.action = "remove" THEN change.before ELSE change.after
    IN \E key \in {"charts", "pivots", "datasetLinks"} : key \in DOMAIN data.value.m

\* the change is an instance change of a workbook with one of the three keys
warned(change) ==
    LET data == IF change.action = "remove" THEN change.before ELSE change.after
    IN /\ data.k = "inst"
       /\ data.elemID[2] = "workbook"
       /\ hasUnsupportedKey(change)

\* C30: the change validator returns exactly one error of severity Warning
\* for each instance change whose data has type name workbook and whose
\* value has at least one of the keys charts, pivots, datasetLinks, whatever
\* is under the key; the error carries the element id of the instance and
\* the errors come in the order of the changes; no other change gets an
\* error.  checkWorkbookValidity is true exactly when none of the three
\* keys is present.
OneWarningPerUnsupportedWorkbook ==
    probe.op = "validate" =>
        LET changes == probe.changes
            errors == probe.errors
            hits == {i \in 1..Len(changes) : warned(changes[i])}
            rank(i) == Cardinality({j \in hits : j <= i})
        IN /\ Len(errors) = Cardinality(hits)
           /\ \A i \in hits :
                 /\ rank(i) \in 1..Len(errors)
                 /\ errors[rank(i)].severity = "Warning"
                 /\ errors[rank(i)].elemID =
                       (IF changes[i].action = "remove" THEN changes[i].before
                        ELSE changes[i].after).elemID
           /\ \A i \in 1..Len(changes) :
                 (IF changes[i].action = "remove" THEN changes[i].before
                  ELSE changes[i].after).k = "inst"
                     => (probe.valid[i] <=> ~hasUnsupportedKey(changes[i]))

\* two changes, the first a workbook with the key pivots and undefined
\* under it, the second a dataset with the key pivots: one error, for the
\* first
OneWarningPerUnsupportedWorkbookWitness ==
    /\ probe.op = "validate"
    /\ Len(probe.changes) = 2
    /\ probe.changes[1].action = "add"
    /\ probe.changes[1].after.elemID[2] = "workbook"
    /\ "pivots" \in DOMAIN probe.changes[1].after.value.m
    /\ probe.changes[1].after.value.m["pivots"] = [k |-> "undef"]
    /\ probe.changes[2].action = "add"
    /\ probe.changes[2].after.elemID[2] = "dataset"
    /\ probe.changes[2].after.k = "inst"
    /\ "pivots" \in DOMAIN probe.changes[2].after.value.m
    /\ Len(probe.errors) = 1
    /\ probe.errors[1].elemID = probe.changes[1].after.elemID

\* a removed workbook is judged by its value before the removal, a
\* modified one by its value after the modification
RemovedWorkbookWarned ==
    /\ probe.op = "validate"
    /\ Len(probe.changes) = 2
    /\ probe.changes[1].action = "remove"
    /\ "datasetLinks" \in DOMAIN probe.changes[1].before.value.m
    /\ probe.changes[2].action = "modify"
    /\ probe.changes[2].before.k = "inst"
    /\ "pivots" \in DOMAIN probe.changes[2].before.value.m
    /\ "charts" \notin DOMAIN probe.changes[2].after.value.m
    /\ Len(probe.errors) = 1
    /\ probe.errors[1].elemID = probe.changes[1].before.elemID

=============================================================================
